---------------------------- MODULE Spec2Model ----------------------------
(***************************************************************************)
(* Risk-scoring and alert-consolidation engine of r2flows/churn_agent.      *)
(*                                                                         *)
(* Dashboard side (src/container/app.py): weekly vendor distribution,      *)
(* analyze_vendor_risk, analyze_spending_trends, analyze_orders_trends and *)
(* consolidate_all_alerts.                                                  *)
(* Batch side (src/behavioral_alert_agent.py): DataExtractor.extract,      *)
(* FeatureEngineer.build_alerts, ChurnScorer._heuristic_assessment, the    *)
(* POS-to-owner mapping, OwnerGrouper, ReportGenerator.generate and         *)
(* NotificationService.dispatch.                                            *)
(* Savings side (src/app_scoring.py): load_and_process_data,               *)
(* agregar_columna_clasificacion and construir_analisis_productos; their   *)
(* tables keep the row order.                                               *)
(*                                                                         *)
(* Conventions.                                                             *)
(*  - A DataFrame is the set of its rows (load_and_process_data ends with  *)
(*    drop_duplicates, so df_orders holds no two equal rows).              *)
(*  - A timestamp is an integer number of ticks; one day is TicksPerDay    *)
(*    ticks, tick 0 is a Monday 00:00.  NaT is the missing timestamp.      *)
(*  - Money is an integer; averages and percentages are kept as exact      *)
(*    fractions [num, den] and compared by cross-multiplication, NaN       *)
(*    (x / 0) compares false with everything as in IEEE arithmetic.        *)
(*  - Python's None is the record None.                                     *)
(*  - risk_level strings are written without their leading emoji; the      *)
(*    test 'CRITICO' in risk_level is HasCritico.                           *)
(***************************************************************************)
EXTENDS Integers, Sequences, FiniteSets, TLC

VARIABLES
    pc,                        \* position of the run that is being modelled
    df_orders,                 \* the loaded order rows
    risk_analysis,             \* pos_id -> analyze_vendor_risk(...)
    spending_analysis,         \* pos_id -> analyze_spending_trends(...)
    orders_analysis,           \* pos_id -> analyze_orders_trends(...)
    pos_with_alerts,           \* vendor alerts handed to the consolidator
    pos_with_spending_alerts,  \* spend alerts handed to the consolidator
    pos_with_orders_alerts,    \* order alerts handed to the consolidator
    consolidated_alerts,       \* result of consolidate_all_alerts
    payload,                   \* argument of ChurnScorer._heuristic_assessment
    assessment,                \* its RiskAssessment
    trial_raw,                 \* JSON rows of the trial file
    trend_raw,                 \* JSON rows of the trend file
    trial_entries,             \* validated TrialEntry list
    trend_index,               \* pos id -> lower-cased trend label
    alerts,                    \* FeatureEngineer.build_alerts result
    assessments,               \* ChurnScorer.score result
    pos_owner_csv,             \* rows of the POS-to-owner CSV file
    pos_owner_map,             \* DataExtractor.pos_owner_map
    owner_input,               \* assessments handed to group_by_owner
    owner_assessments,         \* result of OwnerGrouper.group_by_owner
    df_con_precios_api,        \* joined candidate rows before classification
    df_clasificado,            \* result of agregar_columna_clasificacion
    df_producto_analysis,      \* result of construir_analisis_productos
    files_on_disk,             \* required file -> its state on disk
    csv_pedidos,               \* rows of the orders CSV file
    load_result,               \* outcome of load_and_process_data
    owner_contacts,            \* OwnerDirectory._contacts: owner -> email
    gmail,                     \* which Gmail operations fail in this run
    report_paths,              \* outcome of ReportGenerator.generate
    send_log                   \* what _send_owner_notifications did

dashVars   == <<df_orders, risk_analysis, spending_analysis, orders_analysis>>
consolVars == <<pos_with_alerts, pos_with_spending_alerts,
                pos_with_orders_alerts, consolidated_alerts>>
scorerVars == <<payload, assessment>>
churnVars  == <<trial_raw, trend_raw, trial_entries, trend_index, alerts,
                assessments>>
ownerVars  == <<pos_owner_csv, pos_owner_map, owner_input, owner_assessments>>
savingsVars == <<df_con_precios_api, df_clasificado, df_producto_analysis>>
loadVars   == <<files_on_disk, csv_pedidos, load_result>>
flowVars   == <<owner_contacts, gmail, report_paths, send_log>>
vars       == <<pc, dashVars, consolVars, scorerVars, churnVars, ownerVars,
                savingsVars, loadVars, flowVars>>

None == [none |-> TRUE]
NaT  == -1

(***************************************************************************)
(* Bounds of the model.                                                     *)
(***************************************************************************)
TicksPerDay == 2     \* timestamp resolution: ticks per calendar day
MaxRows     == 3     \* rows of the analysed POS in the trend runs

(***************************************************************************)
(* Generic helpers.                                                         *)
(***************************************************************************)
RECURSIVE KSubsets(_, _)
KSubsets(S, k) ==
    IF k = 0 THEN {{}}
    ELSE LET prev == KSubsets(S, k - 1)
         IN  prev \cup {s \cup {x} : s \in prev, x \in S}

RECURSIVE SeqsUpTo(_, _)
SeqsUpTo(S, k) ==
    IF k = 0 THEN {<<>>}
    ELSE LET prev == SeqsUpTo(S, k - 1)
         IN  prev \cup {Append(s, x) : s \in {p \in prev : Len(p) = k - 1}, x \in S}

SetMax(S) == CHOOSE x \in S : \A y \in S : y <= x
SetMin(S) == CHOOSE x \in S : \A y \in S : x <= y

\* pandas Series.sum() of column total_compra over a set of rows
RECURSIVE SumCompra(_)
SumCompra(rows) ==
    IF rows = {} THEN 0
    ELSE LET r == CHOOSE x \in rows : TRUE
         IN  r.total_compra + SumCompra(rows \ {r})

\* pd.Timedelta(days=n)
Timedelta(days) == days * TicksPerDay

\* dropna(subset=['order_date'])
DropNaT(rows) == {r \in rows : r.order_date # NaT}

(***************************************************************************)
(* analyze_spending_trends / analyze_orders_trends  (container/app.py)     *)
(***************************************************************************)
\* historical_data = pos_data[pos_data['order_date'] < last_7_days_start]
HistoricalData(pos_data, last_7_days_start) ==
    {r \in pos_data : r.order_date < last_7_days_start}

\* a current window that opens after the latest order of the POS
Last7DaysDataAfterLatest(pos_data, last_7_days_start) ==
    {r \in pos_data : r.order_date > last_7_days_start + Timedelta(6)}

\* last_7_days_data = pos_data[pos_data['order_date'] >= last_7_days_start]
Last7DaysData(pos_data, last_7_days_start) ==
    {r \in pos_data : r.order_date >= last_7_days_start}

\* rows of one historical period: current_date <= order_date <= period_end
PeriodDataOpenStart(historical_data, current_date) ==
    {r \in historical_data :
        /\ r.order_date > current_date
        /\ r.order_date <= current_date + Timedelta(6)}

PeriodData(historical_data, current_date) ==
    {r \in historical_data :
        /\ r.order_date >= current_date
        /\ r.order_date <= current_date + Timedelta(6)}

\* the while loop of analyze_spending_trends: a period is appended only
\* when it holds at least one row
RECURSIVE SpendingPeriods(_, _, _)
SpendingPeriods(historical_data, current_date, last_7_days_start) ==
    IF ~(current_date < last_7_days_start) THEN <<>>
    ELSE LET period_data == PeriodData(historical_data, current_date)
             rest == SpendingPeriods(historical_data,
                                     current_date + Timedelta(7),
                                     last_7_days_start)
         IN  IF period_data # {}
             THEN <<[start_date |-> current_date,
                     end_date   |-> current_date + Timedelta(6),
                     total      |-> SumCompra(period_data)]>> \o rest
             ELSE rest

\* the while loop of analyze_orders_trends: every period is appended
RECURSIVE OrdersPeriods(_, _, _)
OrdersPeriods(historical_data, current_date, last_7_days_start) ==
    IF ~(current_date < last_7_days_start) THEN <<>>
    ELSE LET period_data == PeriodData(historical_data, current_date)
         IN  <<[start_date |-> current_date,
                end_date   |-> current_date + Timedelta(6),
                total      |-> Cardinality(period_data)]>>
             \o OrdersPeriods(historical_data,
                              current_date + Timedelta(7),
                              last_7_days_start)

\* sum(p['total_...'] for p in periods)
RECURSIVE SumPeriods(_)
SumPeriods(periods) ==
    IF periods = <<>> THEN 0
    ELSE Head(periods).total + SumPeriods(Tail(periods))

\* The alert cascade shared by both trend analyses.  last is the total of
\* the last 7 days, the historical average is sum / n (n >= 1), and
\* decrease_percentage = ((avg - last) / avg) * 100 >= k  is, for avg > 0,
\* (sum - last * n) * 100 >= k * sum.
TrendAlertStrict(last, sum, n, zero, critica, moderada) ==
    IF last = 0
    THEN [alert_type |-> zero, risk_level |-> "CRITICO"]
    ELSE IF sum > 0
    THEN IF (sum - last * n) * 100 > 50 * sum
         THEN [alert_type |-> critica, risk_level |-> "ALTO"]
         ELSE IF (sum - last * n) * 100 > 30 * sum
         THEN [alert_type |-> moderada, risk_level |-> "MODERADO"]
         ELSE [alert_type |-> "None", risk_level |-> "NORMAL"]
    ELSE [alert_type |-> "None", risk_level |-> "NORMAL"]

TrendAlert(last, sum, n, zero, critica, moderada) ==
    IF last = 0
    THEN [alert_type |-> zero, risk_level |-> "CRITICO"]
    ELSE IF sum > 0
    THEN IF (sum - last * n) * 100 >= 50 * sum
         THEN [alert_type |-> critica, risk_level |-> "ALTO"]
         ELSE IF (sum - last * n) * 100 >= 30 * sum
         THEN [alert_type |-> moderada, risk_level |-> "MODERADO"]
         ELSE [alert_type |-> "None", risk_level |-> "NORMAL"]
    ELSE [alert_type |-> "None", risk_level |-> "NORMAL"]

\* 'decrease_percentage' of the returned dict, as a fraction
DecreasePercentage(last, sum, n) ==
    IF sum > 0 THEN [num |-> (sum - last * n) * 100, den |-> sum]
    ELSE [num |-> 0, den |-> 1]

analyze_spending_trends(df, pos_id) ==
    IF df = {} THEN None
    ELSE LET pos_rows == {r \in df : r.point_of_sale_id = pos_id}
             pos_data == DropNaT(pos_rows)
    IN  IF pos_rows = {} \/ pos_data = {} THEN None
    ELSE LET max_date == SetMax({r.order_date : r \in pos_data})
             last_7_days_start == max_date - Timedelta(6)
             last_7_days_spending ==
                 SumCompra(Last7DaysData(pos_data, last_7_days_start))
             historical_data == HistoricalData(pos_data, last_7_days_start)
    IN  IF historical_data = {} THEN None
    ELSE LET min_historical_date ==
                 SetMin({r.order_date : r \in historical_data})
             periods == SpendingPeriods(historical_data, min_historical_date,
                                        last_7_days_start)
    IN  IF periods = <<>> THEN None
    ELSE LET total == SumPeriods(periods)
             alert == TrendAlert(last_7_days_spending, total, Len(periods),
                                 "GASTO_CERO", "DISMINUCION_CRITICA",
                                 "DISMINUCION_MODERADA")
    IN  [pos_id               |-> pos_id,
         last_period          |-> <<last_7_days_start, max_date>>,
         last_period_spending |-> last_7_days_spending,
         avg_spending         |-> [num |-> total, den |-> Len(periods)],
         decrease_percentage  |->
             DecreasePercentage(last_7_days_spending, total, Len(periods)),
         alert_type           |-> alert.alert_type,
         risk_level           |-> alert.risk_level,
         total_periods        |-> Len(periods)]

analyze_orders_trends(df, pos_id) ==
    IF df = {} THEN None
    ELSE LET pos_rows == {r \in df : r.point_of_sale_id = pos_id}
             pos_data == DropNaT(pos_rows)
    IN  IF pos_rows = {} \/ pos_data = {} THEN None
    ELSE LET max_date == SetMax({r.order_date : r \in pos_data})
             last_7_days_start == max_date - Timedelta(6)
             last_7_days_orders ==
                 Cardinality(Last7DaysData(pos_data, last_7_days_start))
             historical_data == HistoricalData(pos_data, last_7_days_start)
    IN  IF historical_data = {} THEN None
    ELSE LET min_historical_date ==
                 SetMin({r.order_date : r \in historical_data})
             periods == OrdersPeriods(historical_data, min_historical_date,
                                      last_7_days_start)
    IN  IF periods = <<>> THEN None
    ELSE LET total == SumPeriods(periods)
             alert == TrendAlert(last_7_days_orders, total, Len(periods),
                                 "ORDENES_CERO", "ORDENES_DISMINUCION_CRITICA",
                                 "ORDENES_DISMINUCION_MODERADA")
    IN  [pos_id              |-> pos_id,
         last_period         |-> <<last_7_days_start, max_date>>,
         last_period_orders  |-> last_7_days_orders,
         avg_orders          |-> [num |-> total, den |-> Len(periods)],
         decrease_percentage |->
             DecreasePercentage(last_7_days_orders, total, Len(periods)),
         alert_type          |-> alert.alert_type,
         risk_level          |-> alert.risk_level,
         total_periods       |-> Len(periods)]

(***************************************************************************)
(* calculate_weekly_distribution / analyze_vendor_risk  (container/app.py, *)
(* duplicated verbatim in churn_behavior.py)                                *)
(***************************************************************************)
\* order_date.dt.to_period('W').astype(str): the Monday-to-Sunday week of a
\* timestamp.  The strings 'YYYY-MM-DD/YYYY-MM-DD' order as the weeks do,
\* so a week is modelled by its number.
WeekOf(order_date) == (order_date \div TicksPerDay) \div 7

\* groupby(['week','point_of_sale_id','vendor_id'])['total_compra'].sum(),
\* merged with the per-(week, POS) totals; porcentaje is
\* total_compra / total_week_pos * 100, kept as a fraction.
calculate_weekly_distribution(df) ==
    IF df = {} THEN {}
    ELSE LET keys == {<<WeekOf(r.order_date), r.point_of_sale_id, r.vendor_id>>
                         : r \in df}
             WeekPos(w, p) == {r \in df : /\ WeekOf(r.order_date) = w
                                          /\ r.point_of_sale_id = p}
         IN  {[week             |-> k[1],
               point_of_sale_id |-> k[2],
               vendor_id        |-> k[3],
               total_compra     |->
                   SumCompra({r \in WeekPos(k[1], k[2]) : r.vendor_id = k[3]}),
               total_week_pos   |-> SumCompra(WeekPos(k[1], k[2])),
               porcentaje       |->
                   [num |-> 100 * SumCompra({r \in WeekPos(k[1], k[2])
                                                : r.vendor_id = k[3]}),
                    den |-> SumCompra(WeekPos(k[1], k[2]))]]
              : k \in keys}

\* float comparison  p > k  of a percentage with a number; NaN > k is False
PctGreater(p, k) == p.den # 0 /\ p.num > k * p.den
\* p >= q for two percentages of the same (week, POS), NaN-aware
PctGeq(p, q) == p.den # 0 /\ q.den # 0 /\ p.num * q.den >= q.num * p.den
\* top_vendor_pct - second_vendor_pct (same denominator: same week and POS)
PctMinus(p, q) == [num |-> p.num - q.num, den |-> p.den]

\* sort_values('porcentaje', ascending=False): NaN rows go last
RECURSIVE SortByPctDesc(_)
SortByPctDesc(rows) ==
    IF rows = {} THEN <<>>
    ELSE LET top == CHOOSE x \in rows :
                      \A y \in rows : PctGeq(x.porcentaje, y.porcentaje)
                                      \/ y.porcentaje.den = 0
         IN  <<top>> \o SortByPctDesc(rows \ {top})

\* pos_data['week'].max() / .min()
LastWeekAsFirst(pos_data) == SetMin({r.week : r \in pos_data})
LastWeek(pos_data)  == SetMax({r.week : r \in pos_data})
\* the week after the earliest one, when the POS has more than one week
FirstWeekSkippingOne(pos_data) ==
    LET weeks == {r.week : r \in pos_data}
    IN  IF Cardinality(weeks) = 1 THEN SetMin(weeks)
        ELSE SetMin(weeks \ {SetMin(weeks)})
FirstWeek(pos_data) == SetMin({r.week : r \in pos_data})

\* The rule cascade of analyze_vendor_risk (if / elif / elif).
VendorAlertAtLeast50(num_vendors_first, num_vendors_last, last_week_vendors) ==
    IF num_vendors_last = 1
    THEN [alert_type |-> "MONOPOLIO", risk_level |-> "CRITICO"]
    ELSE IF num_vendors_first >= 3 /\ num_vendors_last = 2
    THEN IF PctGreater(PctMinus(last_week_vendors[1].porcentaje,
                                last_week_vendors[2].porcentaje), 50)
            \/ PctGeq(PctMinus(last_week_vendors[1].porcentaje,
                               last_week_vendors[2].porcentaje),
                      [num |-> 50, den |-> 1])
         THEN [alert_type |-> "CONCENTRACION", risk_level |-> "ALTO"]
         ELSE [alert_type |-> "None", risk_level |-> "BAJO"]
    ELSE IF num_vendors_last = 2
    THEN IF PctGreater(last_week_vendors[1].porcentaje, 70)
         THEN [alert_type |-> "MONITOREAR", risk_level |-> "MODERADO"]
         ELSE [alert_type |-> "None", risk_level |-> "BAJO"]
    ELSE [alert_type |-> "None", risk_level |-> "BAJO"]

VendorAlert(num_vendors_first, num_vendors_last, last_week_vendors) ==
    IF num_vendors_last = 1
    THEN [alert_type |-> "MONOPOLIO", risk_level |-> "CRITICO"]
    ELSE IF num_vendors_first >= 3 /\ num_vendors_last = 2
    THEN IF PctGreater(PctMinus(last_week_vendors[1].porcentaje,
                                last_week_vendors[2].porcentaje), 50)
         THEN [alert_type |-> "CONCENTRACION", risk_level |-> "ALTO"]
         ELSE [alert_type |-> "None", risk_level |-> "BAJO"]
    ELSE IF num_vendors_last = 2
    THEN IF PctGreater(last_week_vendors[1].porcentaje, 70)
         THEN [alert_type |-> "MONITOREAR", risk_level |-> "MODERADO"]
         ELSE [alert_type |-> "None", risk_level |-> "BAJO"]
    ELSE [alert_type |-> "None", risk_level |-> "BAJO"]

analyze_vendor_risk(weekly_distribution, pos_id) ==
    IF weekly_distribution = {} THEN None
    ELSE LET pos_data == {r \in weekly_distribution
                             : r.point_of_sale_id = pos_id}
    IN  IF pos_data = {} THEN None
    ELSE LET first_week == FirstWeek(pos_data)
             last_week  == LastWeek(pos_data)
             first_week_data == {r \in pos_data : r.week = first_week}
             num_vendors_first ==
                 Cardinality({r.vendor_id : r \in first_week_data})
             last_week_data == {r \in pos_data : r.week = last_week}
             num_vendors_last ==
                 Cardinality({r.vendor_id : r \in last_week_data})
             last_week_vendors == SortByPctDesc(last_week_data)
             alert == VendorAlert(num_vendors_first, num_vendors_last,
                                  last_week_vendors)
    IN  [pos_id            |-> pos_id,
         num_vendors_first |-> num_vendors_first,
         num_vendors_last  |-> num_vendors_last,
         vendors_last_week |->
             [i \in DOMAIN last_week_vendors |->
                 [vendor_id  |-> last_week_vendors[i].vendor_id,
                  porcentaje |-> last_week_vendors[i].porcentaje]],
         alert_type        |-> alert.alert_type,
         risk_level        |-> alert.risk_level,
         first_week        |-> first_week,
         last_week         |-> last_week]

(***************************************************************************)
(* Idle values of the variable groups a run does not use.                   *)
(***************************************************************************)
PosIds == {1, 2}

NoAnalysis == [p \in PosIds |-> None]

DashIdle ==
    /\ df_orders = {}
    /\ risk_analysis = NoAnalysis
    /\ spending_analysis = NoAnalysis
    /\ orders_analysis = NoAnalysis

ConsolIdle ==
    /\ pos_with_alerts = <<>>
    /\ pos_with_spending_alerts = <<>>
    /\ pos_with_orders_alerts = <<>>
    /\ consolidated_alerts = <<>>

ScorerIdle ==
    /\ payload = None
    /\ assessment = None

ChurnIdle ==
    /\ trial_raw = <<>>
    /\ trend_raw = <<>>
    /\ trial_entries = <<>>
    /\ trend_index = <<>>
    /\ alerts = <<>>
    /\ assessments = <<>>

OwnerIdle ==
    /\ pos_owner_csv = <<>>
    /\ pos_owner_map = <<>>
    /\ owner_input = <<>>
    /\ owner_assessments = <<>>

LoadIdle ==
    /\ files_on_disk = <<>>
    /\ csv_pedidos = <<>>
    /\ load_result = None
FlowIdle ==
    /\ owner_contacts = <<>>
    /\ gmail = None
    /\ report_paths = None
    /\ send_log = <<>>
SavingsIdle ==
    /\ df_con_precios_api = None
    /\ df_clasificado = None
    /\ df_producto_analysis = None

(***************************************************************************)
(* Trend runs: the spend and the order analysis of every POS of a table.   *)
(***************************************************************************)
\* calendar days on which the analysed POS may have orders: around the
\* borders of the 7-day periods
TrendDays    == {0, 6, 7, 14, 21}
TrendTimes   == {d * TicksPerDay + h : d \in TrendDays, h \in 0 .. TicksPerDay - 1}
TrendAmounts == {0, 7, 10}
TrendOrderRows    == [point_of_sale_id : {1}, order_date : TrendTimes,
                 vendor_id : {1}, total_compra : TrendAmounts]
\* rows the analysis of POS 1 must ignore: another POS, a missing date
TrendExtraRows ==
    { {},
      {[point_of_sale_id |-> 2, order_date |-> Timedelta(28),
        vendor_id |-> 1, total_compra |-> 10]},
      {[point_of_sale_id |-> 1, order_date |-> NaT,
        vendor_id |-> 1, total_compra |-> 10]} }

InitTrend ==
    /\ pc = "trend"
    /\ df_orders \in {own \cup extra : own \in KSubsets(TrendOrderRows, MaxRows),
                                       extra \in TrendExtraRows}
    /\ risk_analysis = NoAnalysis
    /\ spending_analysis = NoAnalysis
    /\ orders_analysis = NoAnalysis
    /\ ConsolIdle /\ ScorerIdle /\ ChurnIdle /\ OwnerIdle /\ SavingsIdle
    /\ LoadIdle /\ FlowIdle

\* main loop, lines 1286-1294: both trend analyses of each POS
AnalyzeTrends ==
    /\ pc = "trend"
    /\ spending_analysis' =
           [p \in PosIds |-> analyze_spending_trends(df_orders, p)]
    /\ orders_analysis' =
           [p \in PosIds |-> analyze_orders_trends(df_orders, p)]
    /\ pc' = "done"
    /\ UNCHANGED <<df_orders, risk_analysis, consolVars, scorerVars, churnVars,
                   ownerVars, savingsVars,
                   loadVars, flowVars>>

NextTrend == AnalyzeTrends
SpecTrend == InitTrend /\ [][NextTrend]_vars

(***************************************************************************)
(* Vendor runs: weekly distribution, then analyze_vendor_risk per POS.     *)
(***************************************************************************)
MaxVendorRows == 6   \* rows of the analysed POS in the vendor runs

VendorIds     == {1, 2, 3}
VendorWeeks   == {0, 1, 2}
VendorAmounts == {1, 3}
VendorRows    == [point_of_sale_id : {1},
                  order_date : {Timedelta(7 * w) : w \in VendorWeeks},
                  vendor_id : VendorIds, total_compra : VendorAmounts]
\* further rows: none; another POS; a later week of POS 1 in which two
\* vendors were ordered from for a total of 0
VendorExtraRows ==
    { {},
      {[point_of_sale_id |-> 2, order_date |-> Timedelta(28),
        vendor_id |-> 1, total_compra |-> 3]},
      {[point_of_sale_id |-> 1, order_date |-> Timedelta(21),
        vendor_id |-> v, total_compra |-> 0] : v \in {1, 2}} }

InitVendor ==
    /\ pc = "vendor"
    /\ df_orders \in {own \cup extra
                        : own \in KSubsets(VendorRows, MaxVendorRows),
                          extra \in VendorExtraRows}
    /\ risk_analysis = NoAnalysis
    /\ spending_analysis = NoAnalysis
    /\ orders_analysis = NoAnalysis
    /\ ConsolIdle /\ ScorerIdle /\ ChurnIdle /\ OwnerIdle /\ SavingsIdle
    /\ LoadIdle /\ FlowIdle

\* lines 1257 and 1282: the weekly distribution, then the risk of each POS
AnalyzeVendors ==
    /\ pc = "vendor"
    /\ LET weekly_distribution == calculate_weekly_distribution(df_orders)
       IN  risk_analysis' =
               [p \in PosIds |-> analyze_vendor_risk(weekly_distribution, p)]
    /\ pc' = "done"
    /\ UNCHANGED <<df_orders, spending_analysis, orders_analysis,
                   consolVars, scorerVars, churnVars,
                   ownerVars, savingsVars,
                   loadVars, flowVars>>

NextVendor == AnalyzeVendors
SpecVendor == InitVendor /\ [][NextVendor]_vars

(***************************************************************************)
(* What the order table itself says about a POS (used by the properties).  *)
(***************************************************************************)
RowsOf(p)      == {r \in df_orders : r.point_of_sale_id = p}
DatedRowsOf(p) == {r \in RowsOf(p) : r.order_date # NaT}
WeeksOf(p)     == {WeekOf(r.order_date) : r \in DatedRowsOf(p)}
VendorsIn(p, w) ==
    {r.vendor_id : r \in {x \in DatedRowsOf(p) : WeekOf(x.order_date) = w}}
SpendIn(p, w, v) ==
    SumCompra({r \in DatedRowsOf(p) : /\ WeekOf(r.order_date) = w
                                      /\ r.vendor_id = v})
EarliestWeek(p) == SetMin(WeeksOf(p))
LatestWeek(p)   == SetMax(WeeksOf(p))
\* spend of the leading and of the second vendor of a two-vendor week
LeadSpend(p, w)   == SetMax({SpendIn(p, w, v) : v \in VendorsIn(p, w)})
SecondSpend(p, w) == SetMin({SpendIn(p, w, v) : v \in VendorsIn(p, w)})
WeekSpend(p, w)   == LeadSpend(p, w) + SecondSpend(p, w)

MonopolyCase(p) == Cardinality(VendorsIn(p, LatestWeek(p))) = 1
\* 3+ vendors first, 2 vendors last, share difference above 50 points
ConcentrationCase(p) ==
    /\ Cardinality(VendorsIn(p, EarliestWeek(p))) >= 3
    /\ Cardinality(VendorsIn(p, LatestWeek(p))) = 2
    /\ WeekSpend(p, LatestWeek(p)) > 0
    /\ (LeadSpend(p, LatestWeek(p)) - SecondSpend(p, LatestWeek(p))) * 100
           > 50 * WeekSpend(p, LatestWeek(p))
\* 2 vendors last, leading share above 70%
HighShareCase(p) ==
    /\ Cardinality(VendorsIn(p, LatestWeek(p))) = 2
    /\ WeekSpend(p, LatestWeek(p)) > 0
    /\ LeadSpend(p, LatestWeek(p)) * 100 > 70 * WeekSpend(p, LatestWeek(p))

\* the POS has an order dated before the start of its current 7-day window
HasHistory(p) ==
    \E r \in DatedRowsOf(p) :
        r.order_date <
            SetMax({x.order_date : x \in DatedRowsOf(p)}) - Timedelta(6)

C10_NoneIffNoHistory ==
    pc = "done" =>
    \A p \in PosIds :
        /\ (spending_analysis[p] = None) <=> ~HasHistory(p)
        /\ (orders_analysis[p] = None) <=> ~HasHistory(p)

\* one POS with history is assessed while another, with orders but no
\* history, is not
C10_Witness ==
    /\ pc = "done"
    /\ \E p, q \in PosIds :
        /\ HasHistory(p)
        /\ spending_analysis[p] # None /\ orders_analysis[p] # None
        /\ DatedRowsOf(q) # {} /\ ~HasHistory(q)
        /\ spending_analysis[q] = None /\ orders_analysis[q] = None

\* C11: every dated order of an assessed POS is counted in exactly one
\* window, the current one or one historical 7-day window, so the current
\* total plus the sum of the historical window totals is the POS's total:
\* for the order counts the number of its dated orders, for the spend the
\* sum of their total_compra.  (avg.num is the sum of the window totals.)
C11_WindowsPartitionOrders ==
    pc = "done" =>
    \A p \in PosIds :
        /\ orders_analysis[p] # None =>
               orders_analysis[p].last_period_orders
                 + orders_analysis[p].avg_orders.num
                   = Cardinality(DatedRowsOf(p))
        /\ spending_analysis[p] # None =>
               spending_analysis[p].last_period_spending
                 + spending_analysis[p].avg_spending.num
                   = SumCompra(DatedRowsOf(p))

\* C12: the two trend analyses of a POS use the same historical windows:
\* both are None together, and otherwise they report the same
\* total_periods and divide their window totals by that same number.
C12_SameWindowsForSpendAndOrders ==
    pc = "done" =>
    \A p \in PosIds :
        /\ (spending_analysis[p] = None) <=> (orders_analysis[p] = None)
        /\ spending_analysis[p] # None =>
               /\ spending_analysis[p].total_periods
                      = orders_analysis[p].total_periods
               /\ spending_analysis[p].avg_spending.den
                      = orders_analysis[p].avg_orders.den

(***************************************************************************)
(* Properties of analyze_vendor_risk.                                       *)
(***************************************************************************)
\* C2: a POS whose latest week holds exactly one vendor gets MONOPOLIO /
\* CRITICO, whatever its earliest week looked like.
C2_Monopoly ==
    pc = "done" =>
    \A p \in PosIds :
        (RowsOf(p) # {} /\ MonopolyCase(p)) =>
            /\ risk_analysis[p] # None
            /\ risk_analysis[p].alert_type = "MONOPOLIO"
            /\ risk_analysis[p].risk_level = "CRITICO"

\* a POS that went from several vendors in its earliest week to one vendor
\* in a later week
C2_Witness ==
    /\ pc = "done"
    /\ \E p \in PosIds :
        /\ RowsOf(p) # {}
        /\ EarliestWeek(p) < LatestWeek(p)
        /\ Cardinality(VendorsIn(p, EarliestWeek(p))) >= 2
        /\ MonopolyCase(p)
        /\ risk_analysis[p].alert_type = "MONOPOLIO"

\* C3: CONCENTRACION / ALTO is returned exactly when the earliest week has
\* 3 or more vendors, the latest week exactly 2, and the leading share
\* exceeds the second share by strictly more than 50 points.
C3_Concentration ==
    pc = "done" =>
    \A p \in PosIds :
        RowsOf(p) # {} =>
            /\ (risk_analysis[p].alert_type = "CONCENTRACION")
                   <=> ConcentrationCase(p)
            /\ (risk_analysis[p].alert_type = "CONCENTRACION")
                   => risk_analysis[p].risk_level = "ALTO"

C3_Witness ==
    /\ pc = "done"
    /\ \E p \in PosIds :
        /\ RowsOf(p) # {}
        /\ ConcentrationCase(p)
        /\ risk_analysis[p].alert_type = "CONCENTRACION"
        /\ risk_analysis[p].num_vendors_first >= 3

\* C4: whenever neither the MONOPOLY nor the CONCENTRATION rule applies,
\* the latest week has exactly 2 vendors and the leading share exceeds 70%,
\* the result is MONITOREAR / MODERADO -- also for a POS whose earliest
\* week had 3 or more vendors.
C4_MonitorWhenNoOtherRule ==
    pc = "done" =>
    \A p \in PosIds :
        (RowsOf(p) # {} /\ ~MonopolyCase(p) /\ ~ConcentrationCase(p)
            /\ HighShareCase(p)) =>
            /\ risk_analysis[p].alert_type = "MONITOREAR"
            /\ risk_analysis[p].risk_level = "MODERADO"

\* the weekly distribution the run computed, and its rows of one bucket
WeeklyDistribution == calculate_weekly_distribution(df_orders)
BucketRows(p, w) ==
    {r \in WeeklyDistribution : r.point_of_sale_id = p /\ r.week = w}
RECURSIVE SumTotals(_)
SumTotals(rows) ==
    IF rows = {} THEN 0
    ELSE LET r == CHOOSE x \in rows : TRUE
         IN  r.total_compra + SumTotals(rows \ {r})
RECURSIVE SumPctNum(_)
SumPctNum(rows) ==
    IF rows = {} THEN 0
    ELSE LET r == CHOOSE x \in rows : TRUE
         IN  r.porcentaje.num + SumPctNum(rows \ {r})

\* C23: in every (POS, week) bucket of the weekly distribution the vendor
\* totals add up to total_week_pos and the vendor percentages add up to
\* 100, also in a bucket whose amounts add up to zero.
C23_BucketSharesSumTo100 ==
    pc = "done" =>
    \A r0 \in WeeklyDistribution :
        LET bucket == BucketRows(r0.point_of_sale_id, r0.week)
        IN  /\ SumTotals(bucket) = r0.total_week_pos
            /\ \A r \in bucket : /\ r.porcentaje.den = r0.porcentaje.den
                                 /\ r.porcentaje.den # 0
            /\ SumPctNum(bucket) = 100 * r0.porcentaje.den

\* the rows of the distribution that lie in the earliest or in the latest
\* week bucket of a POS
ExtremeWeeksRows(p) ==
    LET own == {r \in WeeklyDistribution : r.point_of_sale_id = p}
        weeks == {r.week : r \in own}
    IN  {r \in own : r.week \in {SetMin(weeks), SetMax(weeks)}}
Verdict(result) ==
    <<result.alert_type, result.risk_level, result.num_vendors_first,
      result.num_vendors_last>>

\* C24: the alert type, risk level and vendor counts of a POS are those
\* computed from the rows of its earliest and latest week alone: rows of
\* weeks in between and rows of other POS do not change them (so two
\* distributions that agree on the two extreme weeks get the same verdict).
C24_OnlyExtremeWeeksMatter ==
    pc = "done" =>
    \A p \in PosIds :
        RowsOf(p) # {} =>
            /\ risk_analysis[p] # None
            /\ Verdict(risk_analysis[p])
                   = Verdict(analyze_vendor_risk(ExtremeWeeksRows(p), p))

\* three weeks: two vendors in the earliest, a single vendor in the middle
\* one, two in the latest with a leading share above 70%; the verdict is
\* MONITOREAR, the middle week's monopoly goes unnoticed
C24_Witness ==
    /\ pc = "done"
    /\ Cardinality(WeeksOf(1)) = 3
    /\ \E w \in WeeksOf(1) :
           /\ EarliestWeek(1) < w /\ w < LatestWeek(1)
           /\ Cardinality({r.vendor_id : r \in BucketRows(1, w)}) = 1
    /\ risk_analysis[1].num_vendors_first = 2
    /\ risk_analysis[1].num_vendors_last = 2
    /\ risk_analysis[1].alert_type = "MONITOREAR"

(***************************************************************************)
(* consolidate_all_alerts  (container/app.py)                               *)
(***************************************************************************)
\* 'CRITICO' in alert['risk_level']
HasCriticoOrAlto(risk_level) == risk_level \in {"CRITICO", "ALTO"}
HasCritico(risk_level) == risk_level = "CRITICO"

\* a dict literal whose counter already counts the alert being recorded
NewConsolidatedCounted(pos_id) ==
    [pos_id             |-> pos_id,
     alertas_criticas   |-> 0,
     total_alertas      |-> 1,
     alerta_proveedores |-> None,
     alerta_gasto       |-> None,
     alerta_ordenes     |-> None]

\* the dict literal stored for a POS that is not yet in consolidated
NewConsolidated(pos_id) ==
    [pos_id             |-> pos_id,
     alertas_criticas   |-> 0,
     total_alertas      |-> 0,
     alerta_proveedores |-> None,
     alerta_gasto       |-> None,
     alerta_ordenes     |-> None]

\* One iteration of a "for alert in ..." loop.  consolidated is the dict in
\* insertion order; field is the payload key the loop writes.
RecordAlertOverwriting(consolidated, alert, field) ==
    LET kept == SelectSeq(consolidated, LAMBDA c : c.pos_id # alert.pos_id)
    IN  Append(kept,
               [NewConsolidated(alert.pos_id) EXCEPT
                   ![field] = alert,
                   !.total_alertas = 1,
                   !.alertas_criticas =
                       IF HasCritico(alert.risk_level) THEN 1 ELSE 0])

RecordAlert(consolidated, alert, field) ==
    LET with == IF \E i \in DOMAIN consolidated
                      : consolidated[i].pos_id = alert.pos_id
                THEN consolidated
                ELSE Append(consolidated, NewConsolidated(alert.pos_id))
        i == CHOOSE k \in DOMAIN with : with[k].pos_id = alert.pos_id
    IN  [with EXCEPT ![i] =
            [@ EXCEPT ![field] = alert,
                      !.total_alertas = @ + 1,
                      !.alertas_criticas =
                          IF HasCritico(alert.risk_level) THEN @ + 1 ELSE @]]

RECURSIVE RecordAlerts(_, _, _)
RecordAlerts(consolidated, alert_list, field) ==
    IF alert_list = <<>> THEN consolidated
    ELSE RecordAlerts(RecordAlert(consolidated, Head(alert_list), field),
                      Tail(alert_list), field)

\* key=lambda x: (-x['alertas_criticas'], -x['total_alertas']): x sorts
\* strictly before y
GravityBeforeByTotal(x, y) == x.total_alertas > y.total_alertas
GravityBefore(x, y) ==
    \/ x.alertas_criticas > y.alertas_criticas
    \/ /\ x.alertas_criticas = y.alertas_criticas
       /\ x.total_alertas > y.total_alertas

\* list.sort is stable: x is inserted after the last element that does not
\* sort strictly after it
RECURSIVE InsertByGravity(_, _)
InsertByGravity(sorted, x) ==
    IF sorted = <<>> THEN <<x>>
    ELSE IF GravityBefore(x, Head(sorted)) THEN <<x>> \o sorted
    ELSE <<Head(sorted)>> \o InsertByGravity(Tail(sorted), x)

RECURSIVE SortByGravity(_)
SortByGravity(result) ==
    IF result = <<>> THEN <<>>
    ELSE InsertByGravity(SortByGravity(SubSeq(result, 1, Len(result) - 1)),
                         result[Len(result)])

consolidate_all_alerts(vendor_alerts, spending_alerts, orders_alerts) ==
    LET c1 == RecordAlerts(<<>>, vendor_alerts, "alerta_proveedores")
        c2 == RecordAlerts(c1, spending_alerts, "alerta_gasto")
        c3 == RecordAlerts(c2, orders_alerts, "alerta_ordenes")
    IN  SortByGravity(c3)

(***************************************************************************)
(* Consolidation runs.  The caller (lines 1275-1302) builds each list in    *)
(* one loop over the sorted, distinct POS ids, so a list is ascending in    *)
(* pos_id with at most one alert per POS.                                   *)
(***************************************************************************)
MaxConsolPos == 3    \* number of POS in the consolidation runs

ConsolPos == 1 .. MaxConsolPos
VendorAlertKinds ==
    {[alert_type |-> "MONOPOLIO", risk_level |-> "CRITICO"],
     [alert_type |-> "CONCENTRACION", risk_level |-> "ALTO"]}
SpendingAlertKinds ==
    {[alert_type |-> "GASTO_CERO", risk_level |-> "CRITICO"],
     [alert_type |-> "DISMINUCION_CRITICA", risk_level |-> "ALTO"]}
OrdersAlertKinds ==
    {[alert_type |-> "ORDENES_CERO", risk_level |-> "CRITICO"],
     [alert_type |-> "ORDENES_DISMINUCION_MODERADA", risk_level |-> "MODERADO"]}
NoAlert == [alert_type |-> "None", risk_level |-> "None"]

\* the alerts of choice (pos -> kind or NoAlert) for the POS from..upto
RECURSIVE AlertList(_, _, _)
AlertList(choice, from, upto) ==
    IF from > upto THEN <<>>
    ELSE (IF choice[from] = NoAlert THEN <<>>
          ELSE <<[pos_id     |-> from,
                  alert_type |-> choice[from].alert_type,
                  risk_level |-> choice[from].risk_level]>>)
         \o AlertList(choice, from + 1, upto)

AlertLists(kinds) ==
    {AlertList(choice, 1, MaxConsolPos)
        : choice \in [ConsolPos -> kinds \cup {NoAlert}]}

InitConsol ==
    /\ pc = "consolidate"
    /\ pos_with_alerts \in AlertLists(VendorAlertKinds)
    /\ pos_with_spending_alerts \in AlertLists(SpendingAlertKinds)
    /\ pos_with_orders_alerts \in AlertLists(OrdersAlertKinds)
    /\ consolidated_alerts = <<>>
    /\ DashIdle /\ ScorerIdle /\ ChurnIdle /\ OwnerIdle /\ SavingsIdle
    /\ LoadIdle /\ FlowIdle

\* line 1302
Consolidate ==
    /\ pc = "consolidate"
    /\ consolidated_alerts' =
           consolidate_all_alerts(pos_with_alerts, pos_with_spending_alerts,
                                  pos_with_orders_alerts)
    /\ pc' = "done"
    /\ UNCHANGED <<pos_with_alerts, pos_with_spending_alerts,
                   pos_with_orders_alerts, dashVars, scorerVars, churnVars,
                   ownerVars, savingsVars,
                   loadVars, flowVars>>

NextConsol == Consolidate
SpecConsol == InitConsol /\ [][NextConsol]_vars

(***************************************************************************)
(* Properties of consolidate_all_alerts.                                    *)
(***************************************************************************)
InputLists ==
    <<pos_with_alerts, pos_with_spending_alerts, pos_with_orders_alerts>>
PayloadFields == <<"alerta_proveedores", "alerta_gasto", "alerta_ordenes">>
\* the alerts a source supplied for a POS
Supplied(src, p) ==
    {InputLists[src][i] : i \in {k \in DOMAIN InputLists[src]
                                    : InputLists[src][k].pos_id = p}}
InputPos ==
    UNION {{InputLists[src][i].pos_id : i \in DOMAIN InputLists[src]}
              : src \in 1 .. 3}

\* C5: the result is ordered by alertas_criticas descending, then
\* total_alertas descending.
C5_RankedByGravity ==
    pc = "done" =>
    \A i, j \in DOMAIN consolidated_alerts :
        i < j =>
            \/ consolidated_alerts[i].alertas_criticas
                   > consolidated_alerts[j].alertas_criticas
            \/ /\ consolidated_alerts[i].alertas_criticas
                      = consolidated_alerts[j].alertas_criticas
               /\ consolidated_alerts[i].total_alertas
                      >= consolidated_alerts[j].total_alertas

\* 2 critical / 2 total, then 1 critical / 3 total, then 0 critical / 1
\* total, the first of them being a POS that was inserted later
C5_Witness ==
    /\ pc = "done"
    /\ Len(consolidated_alerts) = 3
    /\ consolidated_alerts[1].alertas_criticas = 2
    /\ consolidated_alerts[1].total_alertas = 2
    /\ consolidated_alerts[2].alertas_criticas = 1
    /\ consolidated_alerts[2].total_alertas = 3
    /\ consolidated_alerts[3].alertas_criticas = 0
    /\ consolidated_alerts[3].total_alertas = 1
    /\ consolidated_alerts[1].pos_id > consolidated_alerts[2].pos_id

\* C6: alertas_criticas is the number of sources whose alert for the POS
\* has risk level CRITICO; it lies in 0..3 and ALTO or MODERADO alerts do
\* not raise it.
C6_CriticalCount ==
    pc = "done" =>
    \A i \in DOMAIN consolidated_alerts :
        LET rec == consolidated_alerts[i]
            critical == {src \in 1 .. 3 :
                            \E a \in Supplied(src, rec.pos_id)
                                : a.risk_level = "CRITICO"}
        IN  /\ rec.alertas_criticas = Cardinality(critical)
            /\ rec.alertas_criticas \in 0 .. 3

\* a POS with one CRITICO, one ALTO and one MODERADO alert counts 1
C6_Witness ==
    /\ pc = "done"
    /\ \E i \in DOMAIN consolidated_alerts :
        LET rec == consolidated_alerts[i]
        IN  /\ rec.alerta_proveedores # None /\ rec.alerta_gasto # None
            /\ rec.alerta_ordenes # None
            /\ rec.alerta_proveedores.risk_level = "CRITICO"
            /\ rec.alerta_gasto.risk_level = "ALTO"
            /\ rec.alerta_ordenes.risk_level = "MODERADO"
            /\ rec.alertas_criticas = 1

\* C7: exactly one record per POS that occurs in some input list, none for
\* other POS, and each payload is the alert its source supplied, or None.
C7_OneRecordPerPos ==
    pc = "done" =>
    /\ {consolidated_alerts[i].pos_id : i \in DOMAIN consolidated_alerts}
           = InputPos
    /\ \A i, j \in DOMAIN consolidated_alerts :
           consolidated_alerts[i].pos_id = consolidated_alerts[j].pos_id
               => i = j
    /\ \A i \in DOMAIN consolidated_alerts : \A src \in 1 .. 3 :
           LET rec == consolidated_alerts[i]
               given == Supplied(src, rec.pos_id)
           IN  IF given = {} THEN rec[PayloadFields[src]] = None
               ELSE rec[PayloadFields[src]] \in given

\* a POS known to the vendor and to the orders source but not to the spend
\* source, next to a POS without any alert
C7_Witness ==
    /\ pc = "done"
    /\ InputPos # ConsolPos
    /\ \E i \in DOMAIN consolidated_alerts :
        /\ consolidated_alerts[i].alerta_proveedores # None
        /\ consolidated_alerts[i].alerta_gasto = None
        /\ consolidated_alerts[i].alerta_ordenes # None

\* lines 1286-1299: the analyses that exist and carry an alert type, in the
\* order of the POS loop
RECURSIVE alerts_with_type(_, _)
alerts_with_type(analysis, pos_id) ==
    IF pos_id \notin DOMAIN analysis THEN <<>>
    ELSE (IF analysis[pos_id] # None /\ analysis[pos_id].alert_type # "None"
          THEN <<analysis[pos_id]>> ELSE <<>>)
         \o alerts_with_type(analysis, pos_id + 1)

\* a vendor alert, or none, for each POS
VendorAlertChoices ==
    {alerts_with_type(
         [p \in PosIds |->
             IF kind[p] = NoAlert THEN None
             ELSE [pos_id |-> p, alert_type |-> kind[p].alert_type,
                   risk_level |-> kind[p].risk_level]], 1)
        : kind \in [PosIds -> VendorAlertKinds \cup {NoAlert}]}

\* C26: an order assessment always counts at least one order in the
\* current window; ORDENES_CERO / CRITICO is never produced, so the order
\* alerts handed to consolidate_all_alerts hold no critical alert and,
\* whatever the vendor alerts are, no POS gets alertas_criticas = 3.
C26_OrdersNeverCritical ==
    pc = "done" =>
        /\ \A p \in PosIds :
               orders_analysis[p] # None =>
                   /\ orders_analysis[p].last_period_orders >= 1
                   /\ orders_analysis[p].alert_type # "ORDENES_CERO"
                   /\ orders_analysis[p].risk_level # "CRITICO"
        /\ \A vendor_alerts \in VendorAlertChoices :
               LET consolidated ==
                       consolidate_all_alerts(
                           vendor_alerts,
                           alerts_with_type(spending_analysis, 1),
                           alerts_with_type(orders_analysis, 1))
               IN  \A i \in DOMAIN consolidated :
                       /\ consolidated[i].alertas_criticas < 3
                       /\ consolidated[i].alerta_ordenes # None =>
                              consolidated[i].alerta_ordenes.risk_level
                                  # "CRITICO"

\* one order of amount 0 in the current window after two orders in one
\* earlier period: the spend alert is GASTO_CERO / CRITICO, the order alert
\* is a 50% decrease, ALTO
C26_Witness ==
    /\ pc = "done"
    /\ orders_analysis[1] # None
    /\ orders_analysis[1].last_period_orders = 1
    /\ orders_analysis[1].alert_type = "ORDENES_DISMINUCION_CRITICA"
    /\ spending_analysis[1] # None
    /\ spending_analysis[1].alert_type = "GASTO_CERO"
    /\ spending_analysis[1].risk_level = "CRITICO"

\* the payloads of a consolidated record that are not None
PayloadsOf(rec) ==
    {src \in 1 .. 3 : rec[PayloadFields[src]] # None}

\* C30: every consolidated record has
\* 0 <= alertas_criticas <= total_alertas <= 3, and total_alertas is the
\* number of its payloads that are not None.
C30_CountersWithinPayloads ==
    pc = "done" =>
    \A i \in DOMAIN consolidated_alerts :
        LET rec == consolidated_alerts[i]
        IN  /\ 0 <= rec.alertas_criticas
            /\ rec.alertas_criticas <= rec.total_alertas
            /\ rec.total_alertas <= 3
            /\ rec.total_alertas = Cardinality(PayloadsOf(rec))

\* a POS with three critical alerts next to a POS whose only alert, from
\* the spend source, is not critical
C30_Witness ==
    /\ pc = "done"
    /\ \E i, j \in DOMAIN consolidated_alerts :
        /\ consolidated_alerts[i].alertas_criticas = 3
        /\ consolidated_alerts[i].total_alertas = 3
        /\ consolidated_alerts[j].alertas_criticas = 0
        /\ consolidated_alerts[j].total_alertas = 1
        /\ PayloadsOf(consolidated_alerts[j]) = {2}

(***************************************************************************)
(* ChurnScorer._heuristic_assessment  (behavioral_alert_agent.py)           *)
(***************************************************************************)
\* FeatureEngineer's class constants, by short names
MIN_TIME_LABEL         == "Tiempo de ahorro minimo (opera con 1 proveedor)"
LOW_PLATFORM_USE_LABEL == "Bajo uso de plataforma (<=1 orden/semana)"
RISKY_TREND_LABEL      == "Tendencia de compra riesgosa (inactive/risky)"
CriterionLabels ==
    {MIN_TIME_LABEL, LOW_PLATFORM_USE_LABEL, RISKY_TREND_LABEL}

SeqContains(seq, x) == \E i \in DOMAIN seq : seq[i] = x

\* lines 504-517: three membership tests on the reasons list
CriteriaCountByLength(reasons) == Len(reasons)
CriteriaCount(reasons) ==
    (IF SeqContains(reasons, MIN_TIME_LABEL) THEN 1 ELSE 0)
    + (IF SeqContains(reasons, LOW_PLATFORM_USE_LABEL) THEN 1 ELSE 0)
    + (IF SeqContains(reasons, RISKY_TREND_LABEL) THEN 1 ELSE 0)

\* risk_score and confidence are in hundredths (1.0 is 100);
\* round(risk_score, 2) leaves a number of hundredths unchanged
heuristic_assessment(pl) ==
    LET criteria_count == CriteriaCount(pl.reasons)
        level ==
            IF criteria_count = 3
            THEN [risk_level |-> "extreme", risk_score |-> 100,
                  confidence |-> 95,
                  action |-> "EXTREMA URGENCIA"]
            ELSE IF criteria_count = 2
            THEN [risk_level |-> "urgent", risk_score |-> 75,
                  confidence |-> 85,
                  action |-> "URGENTE"]
            ELSE IF criteria_count = 1
            THEN [risk_level |-> "moderate", risk_score |-> 50,
                  confidence |-> 70,
                  action |-> "MODERADO"]
            ELSE [risk_level |-> "low", risk_score |-> 25,
                  confidence |-> 60,
                  action |-> "Monitoreo rutinario."]
    IN  [point_of_sale_id   |-> pl.point_of_sale_id,
         risk_level         |-> level.risk_level,
         risk_score         |-> level.risk_score,
         confidence         |-> level.confidence,
         summary            |-> <<criteria_count, pl.reasons>>,
         recommended_action |-> level.action,
         data_points_used   |-> pl]

(***************************************************************************)
(* Scorer runs: _heuristic_assessment on an arbitrary payload.              *)
(***************************************************************************)
MaxReasons == 3      \* length of the reasons list of a payload

ReasonValues == CriterionLabels \cup {"otro motivo"}

InitScorer ==
    /\ pc = "assess"
    /\ payload \in [point_of_sale_id : PosIds,
                    reasons : SeqsUpTo(ReasonValues, MaxReasons)]
    /\ assessment = None
    /\ DashIdle /\ ConsolIdle /\ ChurnIdle /\ OwnerIdle /\ SavingsIdle
    /\ LoadIdle /\ FlowIdle

Assess ==
    /\ pc = "assess"
    /\ assessment' = heuristic_assessment(payload)
    /\ pc' = "done"
    /\ UNCHANGED <<payload, dashVars, consolVars, churnVars,
                   ownerVars, savingsVars,
                   loadVars, flowVars>>

NextScorer == Assess
SpecScorer == InitScorer /\ [][NextScorer]_vars

\* C8: the assessment is a step function of the number n of criterion
\* labels present in reasons: 3 -> (1.00, extreme, 0.95), 2 -> (0.75,
\* urgent, 0.85), 1 -> (0.50, moderate, 0.70), 0 -> (0.25, low, 0.60); no
\* other triple occurs.
C8_StepFunction ==
    pc = "done" =>
    LET n == Cardinality({l \in CriterionLabels :
                            \E i \in DOMAIN payload.reasons
                                : payload.reasons[i] = l})
        triple == <<assessment.risk_score, assessment.risk_level,
                    assessment.confidence>>
    IN  /\ n = 3 => triple = <<100, "extreme", 95>>
        /\ n = 2 => triple = <<75, "urgent", 85>>
        /\ n = 1 => triple = <<50, "moderate", 70>>
        /\ n = 0 => triple = <<25, "low", 60>>
        /\ triple \in {<<100, "extreme", 95>>, <<75, "urgent", 85>>,
                       <<50, "moderate", 70>>, <<25, "low", 60>>}

\* three reasons, two distinct criterion labels among them: urgent
C8_Witness ==
    /\ pc = "done"
    /\ assessment # None
    /\ Len(payload.reasons) = 3
    /\ Cardinality({payload.reasons[i] : i \in DOMAIN payload.reasons}
                       \cap CriterionLabels) = 2
    /\ assessment.risk_level = "urgent"
    /\ assessment.risk_score = 75

(***************************************************************************)
(* DataExtractor.extract, FeatureEngineer.build_alerts, ChurnScorer.score  *)
(***************************************************************************)
\* str.lower() on the strings of the model
Lower(str) ==
    CASE str = "LOW"      -> "low"
      [] str = "Minimum"  -> "minimum"
      [] str = "Risky"    -> "risky"
      [] str = "INACTIVE" -> "inactive"
      [] str = "Drogueria" -> "drogueria"
      [] OTHER            -> str

\* DataExtractor._validate_trial (the inputs hold every required field)
validate_trial_verbatim(entry) ==
    [point_of_sale_id |-> entry.point_of_sale_id,
     platform_use     |-> entry.platform_use,
     time_saved       |-> entry.time_saved,
     raw              |-> entry]
validate_trial(entry) ==
    [point_of_sale_id |-> entry.point_of_sale_id,
     platform_use     |-> Lower(entry.platform_use),
     time_saved       |-> Lower(entry.time_saved),
     raw              |-> entry]

\* the dict comprehension of extract: a later row of a POS replaces an
\* earlier one
RECURSIVE BuildTrendIndex(_)
BuildTrendIndex(rows) ==
    IF rows = <<>> THEN <<>>
    ELSE LET last == rows[Len(rows)]
         IN  (last.point_of_sale_id :> Lower(last.trend_classification))
                 @@ BuildTrendIndex(SubSeq(rows, 1, Len(rows) - 1))

\* dict.get(key, "")
DictGet(dict, key) == IF key \in DOMAIN dict THEN dict[key] ELSE ""

\* trend in ["inactive", "risky"]
IsRiskyTrend(trend) == trend \in {"inactive", "risky"}

\* the reasons list of one trial entry, lines 421-434
Reasons(trial, trend) ==
    (IF trial.time_saved = "minimum" THEN <<MIN_TIME_LABEL>> ELSE <<>>)
    \o (IF trial.platform_use = "low" THEN <<LOW_PLATFORM_USE_LABEL>>
        ELSE <<>>)
    \o (IF IsRiskyTrend(trend) THEN <<RISKY_TREND_LABEL>> ELSE <<>>)

\* FeatureEngineer.build_alerts (the order fields copied from orders_index
\* are display data and left out)
\* the same list without the test "if not reasons: continue"
RECURSIVE build_alerts_unfiltered(_, _)
build_alerts_unfiltered(entries, index) ==
    IF entries = <<>> THEN <<>>
    ELSE LET trial == Head(entries)
             trend == Lower(DictGet(index, trial.point_of_sale_id))
         IN  <<[point_of_sale_id |-> trial.point_of_sale_id,
                reasons          |-> Reasons(trial, trend),
                platform_use     |-> trial.platform_use,
                time_saved       |-> trial.time_saved,
                purchase_trend   |-> trend]>>
             \o build_alerts_unfiltered(Tail(entries), index)
RECURSIVE build_alerts(_, _)
build_alerts(entries, index) ==
    IF entries = <<>> THEN <<>>
    ELSE LET trial == Head(entries)
             trend == Lower(DictGet(index, trial.point_of_sale_id))
             reasons == Reasons(trial, trend)
         IN  (IF reasons = <<>> THEN <<>>
              ELSE <<[point_of_sale_id |-> trial.point_of_sale_id,
                      reasons          |-> reasons,
                      platform_use     |-> trial.platform_use,
                      time_saved       |-> trial.time_saved,
                      purchase_trend   |-> trend]>>)
             \o build_alerts(Tail(entries), index)

\* ChurnScorer._build_payload
build_payload(alert) ==
    [point_of_sale_id |-> alert.point_of_sale_id,
     reasons          |-> alert.reasons,
     platform_use     |-> alert.platform_use,
     time_saved       |-> alert.time_saved,
     purchase_trend   |-> IF alert.purchase_trend = "" THEN "unknown"
                          ELSE alert.purchase_trend]

\* ChurnScorer.score
score(alert_list) ==
    [i \in DOMAIN alert_list |->
        heuristic_assessment(build_payload(alert_list[i]))]

(***************************************************************************)
(* Churn runs: ChurnAlertFlow.run up to the scoring stage.                  *)
(***************************************************************************)
MaxTrials == 2       \* rows of the trial file

PlatformUseValues == {"low", "LOW", "high"}
TimeSavedValues   == {"minimum", "Minimum", "medium"}
TrendValues       == {"inactive", "Risky", "active"}
TrialRows == [point_of_sale_id : PosIds, platform_use : PlatformUseValues,
              time_saved : TimeSavedValues]
TrendFileRows == [point_of_sale_id : PosIds, trend_classification : TrendValues]
\* the trend table maps a POS to one label: no POS occurs twice
TrendTables ==
    {t \in SeqsUpTo(TrendFileRows, Cardinality(PosIds)) :
        \A i, j \in DOMAIN t :
            t[i].point_of_sale_id = t[j].point_of_sale_id => i = j}

InitChurn ==
    /\ pc = "extract"
    /\ trial_raw \in SeqsUpTo(TrialRows, MaxTrials)
    /\ trend_raw \in TrendTables
    /\ trial_entries = <<>>
    /\ trend_index = <<>>
    /\ alerts = <<>>
    /\ assessments = <<>>
    /\ DashIdle /\ ConsolIdle /\ ScorerIdle /\ OwnerIdle /\ SavingsIdle
    /\ LoadIdle /\ FlowIdle

Extract ==
    /\ pc = "extract"
    /\ trial_entries' = [i \in DOMAIN trial_raw |-> validate_trial(trial_raw[i])]
    /\ trend_index' = BuildTrendIndex(trend_raw)
    /\ pc' = "build_alerts"
    /\ UNCHANGED <<trial_raw, trend_raw, alerts, assessments,
                   dashVars, consolVars, scorerVars,
                   ownerVars, savingsVars,
                   loadVars, flowVars>>

BuildAlerts ==
    /\ pc = "build_alerts"
    /\ alerts' = build_alerts(trial_entries, trend_index)
    /\ pc' = "score"
    /\ UNCHANGED <<trial_raw, trend_raw, trial_entries, trend_index,
                   assessments, dashVars, consolVars, scorerVars,
                   ownerVars, savingsVars,
                   loadVars, flowVars>>

Score ==
    /\ pc = "score"
    /\ assessments' = score(alerts)
    /\ pc' = "done"
    /\ UNCHANGED <<trial_raw, trend_raw, trial_entries, trend_index, alerts,
                   dashVars, consolVars, scorerVars,
                   ownerVars, savingsVars,
                   loadVars, flowVars>>

NextChurn == Extract \/ BuildAlerts \/ Score
SpecChurn == InitChurn /\ [][NextChurn]_vars

\* what the input files say, compared without regard to case
SameIgnoringCase(str, word) ==
    \/ str = word
    \/ word = "low" /\ str \in {"Low", "LOW"}
    \/ word = "minimum" /\ str \in {"Minimum", "MINIMUM"}
    \/ word = "inactive" /\ str \in {"Inactive", "INACTIVE"}
    \/ word = "risky" /\ str \in {"Risky", "RISKY"}
\* the labels of the trend table for a POS
TrendLabelsOf(p) ==
    {trend_raw[i].trend_classification
        : i \in {k \in DOMAIN trend_raw : trend_raw[k].point_of_sale_id = p}}
CriteriaHolding(entry) ==
    {l \in CriterionLabels :
        \/ l = MIN_TIME_LABEL /\ SameIgnoringCase(entry.time_saved, "minimum")
        \/ l = LOW_PLATFORM_USE_LABEL
             /\ SameIgnoringCase(entry.platform_use, "low")
        \/ l = RISKY_TREND_LABEL
             /\ \E t \in TrendLabelsOf(entry.point_of_sale_id) :
                    \/ SameIgnoringCase(t, "inactive")
                    \/ SameIgnoringCase(t, "risky")}
QualifyingTrials ==
    SelectSeq(trial_raw, LAMBDA e : CriteriaHolding(e) # {})

\* C9: build_alerts emits an alert for a trial entry exactly when at least
\* one criterion holds (compared case-insensitively), and the reasons of
\* the alert are the labels of the criteria that hold, each once.
C9_AlertIffCriterion ==
    pc \in {"score", "done"} =>
    /\ Len(alerts) = Len(QualifyingTrials)
    /\ \A k \in DOMAIN alerts :
        /\ k \in DOMAIN QualifyingTrials
        /\ alerts[k].point_of_sale_id = QualifyingTrials[k].point_of_sale_id
        /\ {alerts[k].reasons[i] : i \in DOMAIN alerts[k].reasons}
               = CriteriaHolding(QualifyingTrials[k])
        /\ Len(alerts[k].reasons)
               = Cardinality(CriteriaHolding(QualifyingTrials[k]))

\* two trial entries: one meets all three criteria through values that are
\* not lower-case, the other meets none and gets no alert
C9_Witness ==
    /\ pc = "score"
    /\ Len(trial_raw) = 2
    /\ Len(alerts) = 1
    /\ Len(alerts[1].reasons) = 3
    /\ \E i \in DOMAIN trial_raw :
        /\ trial_raw[i].platform_use = "LOW"
        /\ trial_raw[i].time_saved = "Minimum"
        /\ "Risky" \in TrendLabelsOf(trial_raw[i].point_of_sale_id)

(***************************************************************************)
(* DataExtractor._load_pos_owner_mapping and OwnerGrouper                   *)
(* (behavioral_alert_agent.py)                                              *)
(***************************************************************************)
\* int(row['id']): the ids a CSV cell can hold, and the cells that make
\* int() raise ValueError
ParsesAsInt(str) == str \in {"1", "2", "3"}
IntOf(str) == CASE str = "1" -> 1 [] str = "2" -> 2 [] str = "3" -> 3

\* str.strip()
Strip(str) == CASE str = " " -> "" [] str = " B " -> "B" [] OTHER -> str

\* the for loop of _load_pos_owner_mapping: only rows with an owner are
\* kept, a later row of the same POS replaces an earlier one
RECURSIVE LoadRows(_, _)
LoadRows(rows, pos_owner) ==
    IF rows = <<>> THEN pos_owner
    ELSE LET row == Head(rows)
             pos_id == IntOf(row.id)
             owner_id == Strip(row.company_owner_id)
         IN  LoadRows(Tail(rows),
                      IF owner_id # ""
                      THEN (pos_id :> owner_id) @@ pos_owner
                      ELSE pos_owner)

\* the try block spans the whole loop: one id that is not a number makes
\* the function return {} for the whole file
load_pos_owner_mapping(csv) ==
    IF \E i \in DOMAIN csv : ~ParsesAsInt(csv[i].id) THEN <<>>
    ELSE LoadRows(csv, <<>>)

\* self.pos_owner_map.get(pos_id): None (written "None", as for the alert
\* types) when the POS is not a key
OwnerOf(pos_owner, pos_id) ==
    IF pos_id \in DOMAIN pos_owner THEN pos_owner[pos_id] ELSE "None"

\* the test "if owner_id:" fails for None and for the empty string
IsMappedAlways(pos_owner, pos_id) == TRUE
IsMapped(pos_owner, pos_id) ==
    /\ OwnerOf(pos_owner, pos_id) # "None"
    /\ OwnerOf(pos_owner, pos_id) # ""

\* first loop of group_by_owner: owner_groups, a dict in insertion order,
\* as a sequence of [owner_id, assessments] entries
RECURSIVE OwnerGroups(_, _, _)
OwnerGroups(pos_owner, list, owner_groups) ==
    IF list = <<>> THEN owner_groups
    ELSE LET a == Head(list)
             owner_id == OwnerOf(pos_owner, a.point_of_sale_id)
             known == {i \in DOMAIN owner_groups
                          : owner_groups[i].owner_id = owner_id}
         IN  IF ~IsMapped(pos_owner, a.point_of_sale_id)
             THEN OwnerGroups(pos_owner, Tail(list), owner_groups)
             ELSE IF known = {}
             THEN OwnerGroups(pos_owner, Tail(list),
                      Append(owner_groups,
                             [owner_id |-> owner_id, assessments |-> <<a>>]))
             ELSE OwnerGroups(pos_owner, Tail(list),
                      [owner_groups EXCEPT
                          ![CHOOSE i \in known : TRUE].assessments
                              = Append(@, a)])

\* [a.point_of_sale_id for a in assessments if a.risk_level.lower() = level]
PosOfLevel(list, levels) ==
    LET sel == SelectSeq(list, LAMBDA a : Lower(a.risk_level) \in levels)
    IN  [i \in DOMAIN sel |-> sel[i].point_of_sale_id]

\* the else branch of the bucket loop: every other level counts as low
PosOfOtherLevels(list) ==
    LET sel == SelectSeq(list, LAMBDA a :
                   Lower(a.risk_level) \notin {"extreme", "urgent", "moderate"})
    IN  [i \in DOMAIN sel |-> sel[i].point_of_sale_id]

\* sum(a.risk_score for a in assessments), in hundredths
RECURSIVE SumRiskScore(_)
SumRiskScore(list) ==
    IF list = <<>> THEN 0
    ELSE Head(list).risk_score + SumRiskScore(Tail(list))

\* round(sum / n, 2) in hundredths: Python rounds the exact value of the
\* float to the nearest hundredth, a tie to the even one; the averages of
\* the scores 0.25, 0.5, 0.75, 1.0 that fall on a tie are exact floats
Round2(sum, n) ==
    LET q == sum \div n
        r == sum % n
    IN  IF 2 * r < n THEN q
        ELSE IF 2 * r > n THEN q + 1
        ELSE IF q % 2 = 0 THEN q ELSE q + 1

\* the message cascade of _create_owner_assessment, lines 611-622; summary
\* and action are kept as the tier with the numbers and the POS list that
\* the f-strings print
OwnerMessageUrgentFirst(extreme, urgent, moderate, pos_count) ==
    IF Len(urgent) > 0
    THEN [summary |-> <<"URGENTE", Len(urgent), pos_count>>,
          action  |-> <<"URGENTE", urgent>>]
    ELSE IF Len(extreme) > 0
    THEN [summary |-> <<"EXTREMO", Len(extreme), pos_count>>,
          action  |-> <<"EMERGENCIA", extreme>>]
    ELSE IF Len(moderate) > 0
    THEN [summary |-> <<"MODERADO", Len(moderate), pos_count>>,
          action  |-> <<"Programar llamadas", moderate>>]
    ELSE [summary |-> <<"ESTABLE", pos_count, pos_count>>,
          action  |-> <<"Monitoreo rutinario semanal", <<>> >>]

OwnerMessage(extreme, urgent, moderate, pos_count) ==
    IF Len(extreme) > 0
    THEN [summary |-> <<"EXTREMO", Len(extreme), pos_count>>,
          action  |-> <<"EMERGENCIA", extreme>>]
    ELSE IF Len(urgent) > 0
    THEN [summary |-> <<"URGENTE", Len(urgent), pos_count>>,
          action  |-> <<"URGENTE", urgent>>]
    ELSE IF Len(moderate) > 0
    THEN [summary |-> <<"MODERADO", Len(moderate), pos_count>>,
          action  |-> <<"Programar llamadas", moderate>>]
    ELSE [summary |-> <<"ESTABLE", pos_count, pos_count>>,
          action  |-> <<"Monitoreo rutinario semanal", <<>> >>]

\* OwnerGrouper._create_owner_assessment (owner_name is display data and
\* left out; owner_email is added by with_contact)
create_owner_assessment(owner_id, list) ==
    LET extreme_risk_pos  == PosOfLevel(list, {"extreme"})
        urgent_risk_pos   == PosOfLevel(list, {"urgent"})
        moderate_risk_pos == PosOfLevel(list, {"moderate"})
        low_risk_pos      == PosOfOtherLevels(list)
        high_risk_pos     == extreme_risk_pos \o urgent_risk_pos
        pos_count         == Len(list)
        message == OwnerMessage(extreme_risk_pos, urgent_risk_pos,
                                moderate_risk_pos, pos_count)
    IN  [owner_id               |-> owner_id,
         pos_count              |-> pos_count,
         high_risk_pos          |-> high_risk_pos,
         moderate_risk_pos      |-> moderate_risk_pos,
         low_risk_pos           |-> low_risk_pos,
         avg_risk_score         |-> Round2(SumRiskScore(list), pos_count),
         total_high_risk_pos    |-> Len(high_risk_pos),
         summary                |-> message.summary,
         recommended_action     |-> message.action,
         individual_assessments |-> list]

\* list.sort(key=lambda x: x.avg_risk_score, reverse=True): a stable sort,
\* entries with equal averages keep their order
ScoreBeforeAscending(a, b) == a.avg_risk_score < b.avg_risk_score
ScoreBefore(a, b) == a.avg_risk_score > b.avg_risk_score

RECURSIVE InsertByScore(_, _)
InsertByScore(sorted, x) ==
    IF sorted = <<>> THEN <<x>>
    ELSE IF ScoreBefore(x, Head(sorted)) THEN <<x>> \o sorted
    ELSE <<Head(sorted)>> \o InsertByScore(Tail(sorted), x)

RECURSIVE SortByScore(_)
SortByScore(list) ==
    IF list = <<>> THEN <<>>
    ELSE InsertByScore(SortByScore(SubSeq(list, 1, Len(list) - 1)),
                       list[Len(list)])

\* OwnerGrouper.group_by_owner
group_by_owner(pos_owner, list) ==
    LET owner_groups == OwnerGroups(pos_owner, list, <<>>)
    IN  SortByScore([i \in DOMAIN owner_groups |->
            create_owner_assessment(owner_groups[i].owner_id,
                                    owner_groups[i].assessments)])

(***************************************************************************)
(* Owner runs: the mapping is loaded, then the assessments are grouped     *)
(* (ReportGenerator.generate, line 671).                                    *)
(***************************************************************************)
MaxAssessments == 3  \* length of the assessment list handed to the grouper

OwnerPos == {1, 2, 3}

\* the CSV file: POS 1 and 2 always have a row, POS 3 may have none; an
\* owner cell may be empty or blank; the file may end with a row whose id
\* is not a number
OwnerCsvFiles ==
    {<<[id |-> "1", company_owner_id |-> o1],
       [id |-> "2", company_owner_id |-> o2]>> \o third \o bad
        : o1 \in {"A", " "}, o2 \in {"A", " B "},
          third \in {<<>>, <<[id |-> "3", company_owner_id |-> "B"]>>,
                     <<[id |-> "3", company_owner_id |-> ""]>>},
          bad \in {<<>>, <<[id |-> "x", company_owner_id |-> "A"]>>}}

\* the assessments ChurnScorer produces: one per POS and criteria count
OwnerCandidates ==
    {heuristic_assessment(
         [point_of_sale_id |-> p,
          reasons |-> SubSeq(<<MIN_TIME_LABEL, LOW_PLATFORM_USE_LABEL,
                               RISKY_TREND_LABEL>>, 1, k)])
        : p \in OwnerPos, k \in 0 .. 3}

InitOwner ==
    /\ pc = "load_owners"
    /\ pos_owner_csv \in OwnerCsvFiles
    /\ pos_owner_map = <<>>
    /\ owner_input \in SeqsUpTo(OwnerCandidates, MaxAssessments)
    /\ owner_assessments = <<>>
    /\ DashIdle /\ ConsolIdle /\ ScorerIdle /\ ChurnIdle /\ SavingsIdle
    /\ LoadIdle /\ FlowIdle

\* DataExtractor.__init__, line 307
LoadOwners ==
    /\ pc = "load_owners"
    /\ pos_owner_map' = load_pos_owner_mapping(pos_owner_csv)
    /\ pc' = "group"
    /\ UNCHANGED <<pos_owner_csv, owner_input, owner_assessments, dashVars,
                   consolVars, scorerVars, churnVars, savingsVars,
                   loadVars, flowVars>>

\* ReportGenerator.generate, line 671
GroupByOwner ==
    /\ pc = "group"
    /\ owner_assessments' = group_by_owner(pos_owner_map, owner_input)
    /\ pc' = "done"
    /\ UNCHANGED <<pos_owner_csv, pos_owner_map, owner_input, dashVars,
                   consolVars, scorerVars, churnVars, savingsVars,
                   loadVars, flowVars>>

NextOwner == LoadOwners \/ GroupByOwner
SpecOwner == InitOwner /\ [][NextOwner]_vars

(***************************************************************************)
(* What the CSV file and the assessment list say (used by the properties). *)
(***************************************************************************)
\* assessments of the POS the loaded map knows
MappedInput ==
    SelectSeq(owner_input,
              LAMBDA a : a.point_of_sale_id \in DOMAIN pos_owner_map)
UnmappedInput ==
    SelectSeq(owner_input,
              LAMBDA a : a.point_of_sale_id \notin DOMAIN pos_owner_map)
\* the mapped assessments of one owner, in input order
MembersOf(owner) ==
    SelectSeq(MappedInput,
              LAMBDA a : pos_owner_map[a.point_of_sale_id] = owner)
OwnersAssessed ==
    {pos_owner_map[MappedInput[i].point_of_sale_id] : i \in DOMAIN MappedInput}
SeqToSet(seq) == {seq[i] : i \in DOMAIN seq}
LevelsOf(list) == {list[i].risk_level : i \in DOMAIN list}

\* the POS ids an owner assessment mentions anywhere
PosMentioned(rec) ==
    SeqToSet(rec.high_risk_pos) \cup SeqToSet(rec.moderate_risk_pos)
    \cup SeqToSet(rec.low_risk_pos)
    \cup {rec.individual_assessments[i].point_of_sale_id
              : i \in DOMAIN rec.individual_assessments}

(***************************************************************************)
(* Properties of OwnerGrouper.                                              *)
(***************************************************************************)
\* C13: a POS without an entry in the POS-to-owner map is mentioned by no
\* owner assessment (no bucket, no individual_assessments list), every
\* pos_count counts mapped assessments only, and the output is the one
\* obtained from the list without the assessments of unmapped POS.
C13_UnmappedPosIgnored ==
    pc = "done" =>
    /\ \A i \in DOMAIN owner_assessments :
        /\ PosMentioned(owner_assessments[i]) \subseteq DOMAIN pos_owner_map
        /\ owner_assessments[i].pos_count
               = Len(MembersOf(owner_assessments[i].owner_id))
        /\ owner_assessments[i].individual_assessments
               = MembersOf(owner_assessments[i].owner_id)
    /\ owner_assessments = group_by_owner(pos_owner_map, MappedInput)

\* the file has a row for POS 3 but gives it no owner; assessments of
\* POS 3 and of a mapped POS were grouped
C13_Witness ==
    /\ pc = "done"
    /\ \E i \in DOMAIN pos_owner_csv :
        pos_owner_csv[i].id = "3" /\ pos_owner_csv[i].company_owner_id = ""
    /\ pos_owner_map # <<>>
    /\ \E i \in DOMAIN owner_input : owner_input[i].point_of_sale_id = 3
    /\ UnmappedInput # <<>>
    /\ owner_assessments # <<>>

\* C14: the message tier of an owner is the highest tier present among
\* its members (extreme, then urgent, then moderate, else stable), and
\* high_risk_pos lists exactly the extreme members followed by the urgent
\* members.
C14_MessageCascade ==
    pc = "done" =>
    \A i \in DOMAIN owner_assessments :
        LET rec == owner_assessments[i]
            members == MembersOf(rec.owner_id)
            levels == LevelsOf(members)
            tier == IF "extreme" \in levels THEN "EXTREMO"
                    ELSE IF "urgent" \in levels THEN "URGENTE"
                    ELSE IF "moderate" \in levels THEN "MODERADO"
                    ELSE "ESTABLE"
            act == IF "extreme" \in levels THEN "EMERGENCIA"
                   ELSE IF "urgent" \in levels THEN "URGENTE"
                   ELSE IF "moderate" \in levels THEN "Programar llamadas"
                   ELSE "Monitoreo rutinario semanal"
        IN  /\ rec.summary[1] = tier
            /\ rec.recommended_action[1] = act
            /\ rec.high_risk_pos
                   = PosOfLevel(members, {"extreme"})
                       \o PosOfLevel(members, {"urgent"})
            /\ rec.total_high_risk_pos
                   = Len(SelectSeq(members, LAMBDA a :
                             a.risk_level \in {"extreme", "urgent"}))

\* an owner whose members are an urgent, then an extreme, then a moderate
\* POS gets the emergency message
C14_Witness ==
    /\ pc = "done"
    /\ \E i \in DOMAIN owner_assessments :
        LET rec == owner_assessments[i]
        IN  /\ rec.pos_count = 3
            /\ rec.individual_assessments[1].risk_level = "urgent"
            /\ rec.individual_assessments[2].risk_level = "extreme"
            /\ rec.individual_assessments[3].risk_level = "moderate"
            /\ rec.summary[1] = "EXTREMO"
            /\ Len(rec.high_risk_pos) = 2

\* C15: the output holds one entry per owner with at least one mapped
\* assessed POS, its avg_risk_score is the mean of the members' risk
\* scores rounded to two decimals (at most half a hundredth away from the
\* mean), and the list is in descending order of avg_risk_score.
C15_SortedByAverage ==
    pc = "done" =>
    /\ {owner_assessments[i].owner_id : i \in DOMAIN owner_assessments}
           = OwnersAssessed
    /\ Len(owner_assessments) = Cardinality(OwnersAssessed)
    /\ \A i \in DOMAIN owner_assessments :
        LET members == MembersOf(owner_assessments[i].owner_id)
            d == owner_assessments[i].avg_risk_score * Len(members)
                     - SumRiskScore(members)
        IN  /\ Len(members) >= 1
            /\ 2 * d <= Len(members) /\ -2 * d <= Len(members)
    /\ \A i, j \in DOMAIN owner_assessments :
        i < j => owner_assessments[i].avg_risk_score
                     >= owner_assessments[j].avg_risk_score

\* two owners; the one met first in the input has the lower average, which
\* is not a whole number of hundredths before rounding
C15_Witness ==
    /\ pc = "done"
    /\ Len(owner_assessments) = 2
    /\ owner_assessments[1].avg_risk_score > owner_assessments[2].avg_risk_score
    /\ owner_assessments[2].owner_id
           = pos_owner_map[MappedInput[1].point_of_sale_id]
    /\ SumRiskScore(MembersOf(owner_assessments[2].owner_id)) % 2 = 1
    /\ owner_assessments[2].pos_count = 2

\* C22: a row of the POS-to-owner file that cannot be parsed is dropped
\* alone: every other row that names an owner is in the returned mapping,
\* whether it was read before or after the bad row.
C22_BadRowDroppedAlone ==
    pc \in {"group", "done"} =>
    \A i \in DOMAIN pos_owner_csv :
        (/\ ParsesAsInt(pos_owner_csv[i].id)
         /\ Strip(pos_owner_csv[i].company_owner_id) # "") =>
            IntOf(pos_owner_csv[i].id) \in DOMAIN pos_owner_map

(***************************************************************************)
(* agregar_columna_clasificacion  (app_scoring.py)                          *)
(*                                                                         *)
(* A frame of candidate rows is [columns, rows]: the set of its column     *)
(* names and the sequence of its rows in index order.  A row carries a     *)
(* value for every column of the model; a column that is not in columns    *)
(* is not read.  NaN is the missing number.                                 *)
(***************************************************************************)
NaN == -1

BASELINE     == "Precio droguería minimo"
VENDOR_MIN   == "Precio vendor minimo"
VENDOR_OTHER == "Precio vendor no minimo"

EmptyFrame == [columns |-> {}, rows |-> <<>>]

\* groupby(['order_id', 'super_catalog_id']): the index labels of a group
GroupKeyOf(row) == <<row.order_id, row.super_catalog_id>>
GroupIndices(rows, key) == {i \in DOMAIN rows : GroupKeyOf(rows[i]) = key}

\* lines 407-425: the rows of a group taken as the pharmacy's own rows
DrogueriaMask(columns, rows, group_indices) ==
    LET first == SetMin(group_indices)
        actual_vendor == IF "vendor_id_x" \in columns
                         THEN rows[first].vendor_id_x ELSE NaN
        no_linkage == {i \in group_indices : rows[i].vendor_id_y = NaN}
        same_vendor == {i \in group_indices
                           : rows[i].vendor_id_y = actual_vendor}
        by_signal ==
            IF "vendor_id_y" \in columns
            THEN IF no_linkage = {} /\ actual_vendor # NaN
                 THEN same_vendor ELSE no_linkage
            ELSE IF "origen" \in columns
            THEN {i \in group_indices : Lower(rows[i].origen) = "drogueria"}
            ELSE {}
        by_price == IF by_signal # {} THEN by_signal
                    ELSE {i \in group_indices : rows[i].precio_vendedor = NaN}
    IN  IF by_price # {} THEN by_price ELSE {first}

\* precios_vendor.min(skipna=True)
MaxValidPrecio(precios) == SetMax(precios \ {NaN})
MinValidPrecio(precios) == SetMin(precios \ {NaN})

\* lines 427-444: the label row i gets from the pass over its group
Clasificacion(columns, rows, i) ==
    LET group_indices == GroupIndices(rows, GroupKeyOf(rows[i]))
        drogueria_indices == DrogueriaMask(columns, rows, group_indices)
        vendor_indices == group_indices \ drogueria_indices
        precios_vendor == {rows[j].precio_vendedor : j \in vendor_indices}
    IN  IF i \in drogueria_indices THEN BASELINE
        ELSE IF precios_vendor \subseteq {NaN} THEN ""
        ELSE IF rows[i].precio_vendedor = MinValidPrecio(precios_vendor)
        THEN VENDOR_MIN
        ELSE VENDOR_OTHER

\* row with the column clasificacion added
WithClasificacion(row, label) ==
    [f \in DOMAIN row \cup {"clasificacion"} |->
        IF f = "clasificacion" THEN label ELSE row[f]]

agregar_columna_clasificacion(df) ==
    IF df.rows = <<>> THEN df
    ELSE IF ~({"order_id", "super_catalog_id", "precio_minimo"}
                  \subseteq df.columns)
    THEN [columns |-> df.columns \cup {"clasificacion"},
          rows    |-> [i \in DOMAIN df.rows |->
                          WithClasificacion(df.rows[i], "")]]
    ELSE [columns |-> df.columns \cup {"clasificacion"},
          rows    |-> [i \in DOMAIN df.rows |->
                          WithClasificacion(df.rows[i],
                              Clasificacion(df.columns, df.rows, i))]]

(***************************************************************************)
(* construir_analisis_productos  (app_scoring.py)                           *)
(***************************************************************************)
SENTINEL_VENDOR == 1156

\* required_base_cols and required_vendor_cols, lines 95-96
RequiredBaseCols ==
    {"super_catalog_id", "order_id", "valor_vendedor", "precio_minimo",
     "unidades_pedidas"}
RequiredVendorCols(vendor_col) ==
    {"super_catalog_id", "order_id", vendor_col, "precio_total_vendedor",
     "precio_vendedor"}

\* lines 108-113: the index labels of the rows kept in vendors_df
VendorsDfWithSentinel(rows, candidates, vendor_col) ==
    {i \in candidates :
        /\ rows[i][vendor_col] # NaN
        /\ rows[i].precio_total_vendedor # NaN
        /\ rows[i].precio_total_vendedor > 0}

VendorsDf(rows, candidates, vendor_col) ==
    {i \in candidates :
        /\ rows[i][vendor_col] # NaN
        /\ rows[i].precio_total_vendedor # NaN
        /\ rows[i].precio_total_vendedor > 0
        /\ rows[i][vendor_col] # SENTINEL_VENDOR}

\* groupby([...])['precio_total_vendedor'].idxmin(): the first row of the
\* group that holds the lowest total
IdxMin(rows, indices) ==
    SetMin({i \in indices :
               \A j \in indices : rows[i].precio_total_vendedor
                                      <= rows[j].precio_total_vendedor})

\* lines 165-166: the saving of a merged row and the filter on it.  The
\* merge keeps the left (vendor) row's valor_vendedor under that name; NaN
\* gives a NaN saving, which the filter drops.
KeepsSavingNonNegative(valor_vendedor, precio_total_vendedor) ==
    valor_vendedor # NaN /\ valor_vendedor - precio_total_vendedor >= 0
KeepsSaving(valor_vendedor, precio_total_vendedor) ==
    valor_vendedor # NaN /\ valor_vendedor - precio_total_vendedor > 0

\* pd.cut(..., bins=[-inf, 10, 20, inf], labels=['Bajo', 'Medio', 'Alto'])
\* of the percentage num / den (den > 0)
TipoAhorro(pct) ==
    IF pct.num <= 10 * pct.den THEN "Bajo"
    ELSE IF pct.num <= 20 * pct.den THEN "Medio"
    ELSE "Alto"

\* np.where(valor_vendedor > 0, ahorro / valor_vendedor * 100, 0)
PorcentajeAhorro(ahorro, valor_vendedor) ==
    IF valor_vendedor > 0 THEN [num |-> ahorro * 100, den |-> valor_vendedor]
    ELSE [num |-> 0, den |-> 1]

\* one row of final_df, lines 222-240, from the best vendor row of a group
\* (description, date and vendor status are display data, left out)
ProductRecord(best, vendor_col, drogueria_col, opciones) ==
    LET ahorro == best.valor_vendedor - best.precio_total_vendedor
        pct == PorcentajeAhorro(ahorro, best.valor_vendedor)
    IN  [producto_id               |-> best.super_catalog_id,
         orden_id                  |-> best.order_id,
         unidades                  |-> best.unidades_pedidas,
         drogueria_id              |-> best[drogueria_col],
         precio_unit_drogueria     |-> best.precio_minimo,
         precio_total_drogueria    |-> best.valor_vendedor,
         opciones_vendors          |-> opciones,
         mejor_vendor_id           |-> best[vendor_col],
         precio_unit_mejor_vendor  |-> best.precio_vendedor,
         precio_total_mejor_vendor |-> best.precio_total_vendedor,
         ahorro_con_mejor_vendor   |-> ahorro,
         porcentaje_ahorro         |-> pct,
         tipo_ahorro               |-> TipoAhorro(pct),
         point_of_sale_id          |-> best.point_of_sale_id]

\* sort_values('Ahorro con Mejor Vendor', ascending=False); for the few
\* rows of a run the sort keeps rows with equal savings in their order
RECURSIVE InsertByAhorro(_, _)
InsertByAhorro(sorted, x) ==
    IF sorted = <<>> THEN <<x>>
    ELSE IF x.ahorro_con_mejor_vendor > Head(sorted).ahorro_con_mejor_vendor
    THEN <<x>> \o sorted
    ELSE <<Head(sorted)>> \o InsertByAhorro(Tail(sorted), x)

RECURSIVE SortByAhorro(_)
SortByAhorro(list) ==
    IF list = <<>> THEN <<>>
    ELSE InsertByAhorro(SortByAhorro(SubSeq(list, 1, Len(list) - 1)),
                        list[Len(list)])

\* the group keys of a set of rows in the order of
\* groupby(['super_catalog_id', 'order_id'])
RECURSIVE SortedKeys(_)
SortedKeys(keys) ==
    IF keys = {} THEN <<>>
    ELSE LET k == CHOOSE x \in keys : \A y \in keys :
                      \/ x[2] < y[2]
                      \/ x[2] = y[2] /\ x[1] <= y[1]
         IN  <<k>> \o SortedKeys(keys \ {k})

\* the columns of final_df
FinalColumns ==
    {"Producto ID", "Descripción", "Orden ID", "Fecha Orden", "Unidades",
     "Droguería ID", "Precio Unit. Droguería", "Precio Total Droguería",
     "Opciones Vendors", "Mejor Vendor ID", "Status Mejor Vendor",
     "Precio Unit. Mejor Vendor", "Precio Total Mejor Vendor",
     "Ahorro con Mejor Vendor", "Porcentaje Ahorro", "Tipo Ahorro",
     "point_of_sale_id"}

\* construir_analisis_productos.  productos_con_vendors is a selection of
\* rows of df_pos_clasificado with the same columns; it is passed as the
\* set candidates of its index labels.  Every early exit returns
\* pd.DataFrame(), the frame without columns and rows.
construir_analisis_productos(df_pos_clasificado, candidates, vendor_col, drogueria_col) ==
    LET rows == df_pos_clasificado.rows
        columns == df_pos_clasificado.columns
    IN  IF candidates = {} THEN EmptyFrame
    ELSE IF ~(RequiredBaseCols \subseteq columns)
            \/ ~(RequiredVendorCols(vendor_col) \subseteq columns)
    THEN EmptyFrame
    ELSE LET vendors_df == VendorsDf(rows, candidates, vendor_col)
             drogueria_df == {i \in DOMAIN rows
                                 : rows[i].clasificacion = BASELINE}
    IN  IF vendors_df = {} THEN EmptyFrame
    ELSE IF drogueria_df = {} THEN EmptyFrame
    ELSE LET OfGroup(k) == vendors_df \cap GroupIndices(rows, k)
             Best(k) == rows[IdxMin(rows, OfGroup(k))]
             keys == SortedKeys({GroupKeyOf(rows[i]) : i \in vendors_df})
             merged == SelectSeq(keys, LAMBDA k :
                           \E i \in drogueria_df : GroupKeyOf(rows[i]) = k)
             kept == SelectSeq(merged, LAMBDA k :
                         KeepsSaving(Best(k).valor_vendedor,
                                     Best(k).precio_total_vendedor))
    IN  IF merged = <<>> THEN EmptyFrame
    ELSE IF kept = <<>> THEN EmptyFrame
    ELSE [columns |-> FinalColumns,
          rows    |-> SortByAhorro(
              [n \in DOMAIN kept |->
                  ProductRecord(Best(kept[n]), vendor_col, drogueria_col,
                                Cardinality(OfGroup(kept[n])))])]

\* filtrar_registros_validos: drops the one known bad record (order
\* 346579, barcode 7501027800060, vendor 1164) when the table has a
\* barcode and a vendor column; astype(str) of the product ids of the runs
BarcodeStr(super_catalog_id) ==
    CASE super_catalog_id = 5 -> "5" [] super_catalog_id = 6 -> "6"
filtrar_registros_validos(df) ==
    IF df.rows = <<>> THEN df
    ELSE IF "super_catalog_id" \in df.columns /\ "vendor_id_y" \in df.columns
    THEN [df EXCEPT !.rows = SelectSeq(@, LAMBDA r :
             ~(/\ "order_id" \in df.columns => r.order_id = 346579
               /\ BarcodeStr(r.super_catalog_id) = "7501027800060"
               /\ r.vendor_id_y = 1164))]
    ELSE df

\* lines 1312 and 1320-1330: the POS filter and the choice of the columns
PosRows(df, selected_pos) ==
    [columns |-> df.columns,
     rows    |-> SelectSeq(df.rows,
                           LAMBDA r : r.point_of_sale_id = selected_pos)]
VendorCol(columns) ==
    IF "vendor_id_y" \in columns THEN "vendor_id_y"
    ELSE IF "vendor_id" \in columns THEN "vendor_id" ELSE "None"
DrogueriaCol(columns) ==
    IF "vendor_id_x" \in columns THEN "vendor_id_x"
    ELSE IF "drug_manufacturer_id" \in columns THEN "drug_manufacturer_id"
    ELSE "None"
\* lines 1337-1339: index labels of the rows with a vendor label
ProductosConVendors(df_pos_clasificado) ==
    {i \in DOMAIN df_pos_clasificado.rows :
        df_pos_clasificado.rows[i].clasificacion
            \in {VENDOR_MIN, VENDOR_OTHER}}

(***************************************************************************)
(* Savings runs: the joined candidate rows of the selected POS are         *)
(* classified (line 1092), then analysed product by product (line 1342).   *)
(***************************************************************************)
MaxLines == 3        \* rows of the joined candidate table

SelectedPos == 1

\* the two order lines of the runs, as <<order_id, super_catalog_id>>,
\* with what the order says about each: purchasing vendor, units, value
\* paid and unit price paid
OrderLines == {<<1, 5>>, <<1, 6>>}
LineVendor(k) == IF k = <<1, 5>> THEN 8 ELSE NaN
LineUnits(k)  == IF k = <<1, 5>> THEN 1 ELSE 2
LineValue(k)  == IF k = <<1, 5>> THEN 9 ELSE 20
\* the vendor a candidate row is linked to, and its unit price
CandidateVendors == {NaN, 8, SENTINEL_VENDOR}
CandidatePrices(k) == IF k = <<1, 5>> THEN {NaN, 5, 9} ELSE {5, 9, 12}

\* one row of the join of an order line with a catalog entry;
\* precio_total_vendedor is unidades_pedidas * precio_vendedor (line 1015)
CandidateRow(k, vendor, precio) ==
    [order_id              |-> k[1],
     super_catalog_id      |-> k[2],
     point_of_sale_id      |-> SelectedPos,
     vendor_id_x           |-> LineVendor(k),
     unidades_pedidas      |-> LineUnits(k),
     valor_vendedor        |-> LineValue(k),
     precio_minimo         |-> LineValue(k) \div LineUnits(k),
     vendor_id_y           |-> vendor,
     origen                |-> IF vendor = NaN THEN "Drogueria" ELSE "vendor",
     precio_vendedor       |-> precio,
     precio_total_vendedor |-> IF precio = NaN THEN NaN
                               ELSE LineUnits(k) * precio]

CandidateRows ==
    UNION {{CandidateRow(k, v, p) : v \in CandidateVendors,
                                   p \in CandidatePrices(k)}
              : k \in OrderLines}

AllColumns ==
    {"order_id", "super_catalog_id", "point_of_sale_id", "vendor_id_x",
     "vendor_id_y", "unidades_pedidas", "valor_vendedor", "precio_minimo",
     "precio_vendedor", "precio_total_vendedor"}
\* the tables the joins can deliver: complete; without the purchasing
\* vendor; with an origin column in place of the vendor linkage; with
\* neither; without the totals; without the unit price paid
ColumnSets ==
    {AllColumns,
     AllColumns \ {"vendor_id_x"},
     (AllColumns \ {"vendor_id_y"}) \cup {"origen"},
     AllColumns \ {"vendor_id_y"},
     AllColumns \ {"precio_total_vendedor"},
     AllColumns \ {"precio_minimo"}}

InitSavings ==
    /\ pc = "classify"
    /\ df_con_precios_api \in
           [columns : ColumnSets, rows : SeqsUpTo(CandidateRows, MaxLines)]
    /\ df_clasificado = None
    /\ df_producto_analysis = None
    /\ DashIdle /\ ConsolIdle /\ ScorerIdle /\ ChurnIdle /\ OwnerIdle
    /\ LoadIdle /\ FlowIdle

\* line 1092
Classify ==
    /\ pc = "classify"
    /\ df_clasificado' = agregar_columna_clasificacion(df_con_precios_api)
    /\ pc' = "analyze"
    /\ UNCHANGED <<df_con_precios_api, df_producto_analysis, dashVars,
                   consolVars, scorerVars, churnVars, ownerVars,
                   loadVars, flowVars>>

\* lines 1307-1349: the analysis is called only when the table has rows
\* of the POS, both id columns and at least one row with a vendor label
AnalysisCalled(df) ==
    /\ df.rows # <<>>
    /\ PosRows(filtrar_registros_validos(df), SelectedPos).rows # <<>>
    /\ VendorCol(df.columns) # "None"
    /\ DrogueriaCol(df.columns) # "None"
    /\ ProductosConVendors(
           PosRows(filtrar_registros_validos(df), SelectedPos)) # {}

AnalyzeProducts ==
    /\ pc = "analyze"
    /\ LET df_pos_clasificado ==
               PosRows(filtrar_registros_validos(df_clasificado), SelectedPos)
       IN  df_producto_analysis' =
               IF AnalysisCalled(df_clasificado)
               THEN construir_analisis_productos(
                        df_pos_clasificado,
                        ProductosConVendors(df_pos_clasificado),
                        VendorCol(df_pos_clasificado.columns),
                        DrogueriaCol(df_pos_clasificado.columns))
               ELSE None
    /\ pc' = "done"
    /\ UNCHANGED <<df_con_precios_api, df_clasificado, dashVars,
                   consolVars, scorerVars, churnVars, ownerVars,
                   loadVars, flowVars>>

NextSavings == Classify \/ AnalyzeProducts
SpecSavings == InitSavings /\ [][NextSavings]_vars

(***************************************************************************)
(* What the classified table says (used by the properties).                 *)
(***************************************************************************)
\* the classifier went through the groups (it did not stop at a missing
\* column)
ClassifierRan ==
    /\ df_clasificado # None
    /\ df_clasificado.rows # <<>>
    /\ {"order_id", "super_catalog_id", "precio_minimo"}
           \subseteq df_con_precios_api.columns
ClassifiedGroup(k) == GroupIndices(df_clasificado.rows, k)
LabelledIn(k, labels) ==
    {i \in ClassifiedGroup(k) : df_clasificado.rows[i].clasificacion \in labels}
\* rows of a group that are not the pharmacy's own: the vendor candidates
VendorCandidatesIn(k) ==
    {i \in ClassifiedGroup(k)
        : df_clasificado.rows[i].clasificacion # BASELINE}
\* vendor-labelled rows of a group with a usable total whose vendor is a
\* real vendor other than the sentinel
RealOffersIn(k) ==
    {i \in LabelledIn(k, {VENDOR_MIN, VENDOR_OTHER}) :
        /\ df_clasificado.rows[i].vendor_id_y \notin {NaN, SENTINEL_VENDOR}
        /\ df_clasificado.rows[i].precio_total_vendedor > 0}
OfferTotals(k) ==
    {df_clasificado.rows[i].precio_total_vendedor : i \in RealOffersIn(k)}
RecordsOf(k) ==
    {n \in DOMAIN df_producto_analysis.rows :
        /\ df_producto_analysis.rows[n].orden_id = k[1]
        /\ df_producto_analysis.rows[n].producto_id = k[2]}

(***************************************************************************)
(* Properties of the classifier and of the savings analysis.                *)
(***************************************************************************)
\* C16: every classified group with at least one vendor candidate row has
\* exactly one row labelled 'Precio droguería minimo' and at most one row
\* labelled 'Precio vendor minimo'.
C16_OneBaselineAtMostOneBest ==
    (pc \in {"analyze", "done"} /\ ClassifierRan) =>
    \A k \in OrderLines :
        VendorCandidatesIn(k) # {} =>
            /\ Cardinality(LabelledIn(k, {BASELINE})) = 1
            /\ Cardinality(LabelledIn(k, {VENDOR_MIN})) <= 1

\* C17: a row labelled 'Precio vendor minimo' has a valid unit price that
\* is the lowest valid unit price of the rows of its group that are not
\* baseline rows, so it is at most the price of every row labelled
\* 'Precio vendor no minimo' that has a price; baseline rows do not take
\* part in the minimum.
C17_BestPriceIsMinimum ==
    (pc \in {"analyze", "done"} /\ ClassifierRan) =>
    \A k \in OrderLines : \A i \in LabelledIn(k, {VENDOR_MIN}) :
        /\ df_clasificado.rows[i].precio_vendedor # NaN
        /\ \A j \in VendorCandidatesIn(k) :
               df_clasificado.rows[j].precio_vendedor # NaN
                   => df_clasificado.rows[i].precio_vendedor
                          <= df_clasificado.rows[j].precio_vendedor
        /\ \A j \in LabelledIn(k, {VENDOR_OTHER}) :
               df_clasificado.rows[j].precio_vendedor # NaN
                   => df_clasificado.rows[i].precio_vendedor
                          <= df_clasificado.rows[j].precio_vendedor

\* a group whose baseline row is cheaper than its best vendor row, which
\* is cheaper than another vendor row
C17_Witness ==
    /\ pc = "analyze"
    /\ ClassifierRan
    /\ \E k \in OrderLines :
        \E b \in LabelledIn(k, {BASELINE}), i \in LabelledIn(k, {VENDOR_MIN}),
           j \in LabelledIn(k, {VENDOR_OTHER}) :
            /\ df_clasificado.rows[b].precio_vendedor # NaN
            /\ df_clasificado.rows[b].precio_vendedor
                   < df_clasificado.rows[i].precio_vendedor
            /\ df_clasificado.rows[i].precio_vendedor
                   < df_clasificado.rows[j].precio_vendedor

\* C18: every emitted record has a saving above 0, the saving being the
\* pharmacy total minus the best vendor total, and an order line whose
\* cheapest real vendor offer is not below the pharmacy total (or that has
\* no such offer) has no record.
C18_OnlyPositiveSavings ==
    (pc = "done" /\ df_producto_analysis # None) =>
    /\ \A n \in DOMAIN df_producto_analysis.rows :
        LET rec == df_producto_analysis.rows[n]
        IN  /\ rec.ahorro_con_mejor_vendor > 0
            /\ rec.ahorro_con_mejor_vendor
                   = rec.precio_total_drogueria - rec.precio_total_mejor_vendor
            /\ rec.precio_total_drogueria
                   = LineValue(<<rec.orden_id, rec.producto_id>>)
    /\ \A k \in OrderLines :
        (OfferTotals(k) = {} \/ SetMin(OfferTotals(k)) >= LineValue(k))
            => RecordsOf(k) = {}

\* the analysis was called on a complete table for an order line whose
\* cheapest real offer costs exactly the pharmacy total: the saving of 0 is
\* dropped and the line has no record
C18_Witness ==
    /\ pc = "done"
    /\ AnalysisCalled(df_clasificado)
    /\ df_clasificado.columns = AllColumns \cup {"clasificacion"}
    /\ df_producto_analysis = EmptyFrame
    /\ \E k \in OrderLines :
        /\ LabelledIn(k, {BASELINE}) # {}
        /\ OfferTotals(k) # {}
        /\ SetMin(OfferTotals(k)) = LineValue(k)

\* C19: no record names the sentinel vendor 1156 as best vendor, Opciones
\* Vendors counts the real offers only, and the best vendor total is the
\* lowest total among the real offers, also when a row of vendor 1156 is
\* cheaper.
C19_SentinelExcluded ==
    (pc = "done" /\ df_producto_analysis # None) =>
    \A n \in DOMAIN df_producto_analysis.rows :
        LET rec == df_producto_analysis.rows[n]
            k == <<rec.orden_id, rec.producto_id>>
        IN  /\ rec.mejor_vendor_id # SENTINEL_VENDOR
            /\ rec.opciones_vendors = Cardinality(RealOffersIn(k))
            /\ rec.precio_total_mejor_vendor = SetMin(OfferTotals(k))

\* a record for an order line in which vendor 1156 has a vendor-labelled
\* row with a lower total than the selected vendor
C19_Witness ==
    /\ pc = "done"
    /\ df_producto_analysis # None
    /\ \E n \in DOMAIN df_producto_analysis.rows :
        LET rec == df_producto_analysis.rows[n]
            k == <<rec.orden_id, rec.producto_id>>
        IN  \E i \in LabelledIn(k, {VENDOR_MIN, VENDOR_OTHER}) :
                /\ df_clasificado.rows[i].vendor_id_y = SENTINEL_VENDOR
                /\ df_clasificado.rows[i].precio_total_vendedor # NaN
                /\ df_clasificado.rows[i].precio_total_vendedor
                       < rec.precio_total_mejor_vendor

\* the row of df_pos_clasificado that construir_analisis_productos takes as
\* best vendor row of a group (lines 102-131)
BestVendorRowOf(k) ==
    LET df_pos == PosRows(filtrar_registros_validos(df_clasificado),
                          SelectedPos)
        vendors_df == VendorsDf(df_pos.rows, ProductosConVendors(df_pos),
                                VendorCol(df_pos.columns))
    IN  df_pos.rows[IdxMin(df_pos.rows,
                           vendors_df \cap GroupIndices(df_pos.rows, k))]

\* C29: for every record of the savings analysis, the row selected as best
\* vendor of its (order, product) group carries the classifier's label
\* 'Precio vendor minimo'.
C29_BestVendorIsLabelledMinimum ==
    (pc = "done" /\ df_producto_analysis # None) =>
    \A n \in DOMAIN df_producto_analysis.rows :
        LET rec == df_producto_analysis.rows[n]
            best == BestVendorRowOf(<<rec.orden_id, rec.producto_id>>)
        IN  /\ best.vendor_id_y = rec.mejor_vendor_id
            /\ best.clasificacion = VENDOR_MIN

\* C20: the value returned for a valid table in which no order line has a
\* positive saving differs from the value returned for the same table
\* when a required column (precio_total_vendedor) is missing.
C20_FailureDistinctFromNoSavings ==
    (/\ pc = "done"
     /\ AnalysisCalled(df_clasificado)
     /\ RequiredBaseCols \cup RequiredVendorCols("vendor_id_y")
            \subseteq df_clasificado.columns
     /\ df_producto_analysis.rows = <<>>) =>
    LET df_pos_clasificado == PosRows(df_clasificado, SelectedPos)
        without_column ==
            [df_pos_clasificado EXCEPT
                !.columns = @ \ {"precio_total_vendedor"}]
    IN  df_producto_analysis
            # construir_analisis_productos(
                  without_column,
                  ProductosConVendors(df_pos_clasificado),
                  VendorCol(without_column.columns),
                  DrogueriaCol(without_column.columns))

(***************************************************************************)
(* load_and_process_data  (app_scoring.py)                                  *)
(* Of the nine tables it returns, the model keeps the orders table and the  *)
(* two tables the dashboard derives its POS list and order statistics from. *)
(***************************************************************************)
ORDERS_FILE == "data/orders_delivered_pos_vendor_geozone.csv"
required_files ==
    {"data/pos_address.csv", ORDERS_FILE, "data/vendors_catalog.csv",
     "data/vendor_pos_relations.csv"}

\* a file is absent, present but rejected by pd.read_csv, or readable
FileStates == {"absent", "corrupt", "ok"}
\* [f for f in required_files if not os.path.exists(f)]
missing_files(files) == {f \in required_files : files[f] = "absent"}
\* the files on which load_cached_csv raises
unreadable_files(files) == {f \in required_files : files[f] = "corrupt"}

PedidosColumns ==
    {"point_of_sale_id", "order_id", "vendor_id", "unidades_pedidas",
     "precio_minimo"}
PosVendorTotalsColumns == {"point_of_sale_id", "vendor_id", "total_compra"}
PosOrderStatsColumns ==
    {"point_of_sale_id", "promedio_por_orden", "numero_ordenes"}

\* df_orders['total_compra'] = unidades_pedidas * precio_minimo, summed over
\* the rows at a set of positions
RECURSIVE SumTotalCompra(_, _)
SumTotalCompra(rows, idx) ==
    IF idx = {} THEN 0
    ELSE LET i == CHOOSE x \in idx : TRUE
         IN  rows[i].unidades_pedidas * rows[i].precio_minimo
                 + SumTotalCompra(rows, idx \ {i})

\* a set of integer pairs in ascending (groupby) order
RECURSIVE SortedPairs(_)
SortedPairs(keys) ==
    IF keys = {} THEN <<>>
    ELSE LET k == CHOOSE x \in keys : \A y \in keys :
                      \/ x[1] < y[1]
                      \/ x[1] = y[1] /\ x[2] <= y[2]
         IN  <<k>> \o SortedPairs(keys \ {k})

\* groupby(['point_of_sale_id', vendor_col])['total_compra'].sum()
pos_vendor_totals_of(rows) ==
    LET keys == SortedPairs({<<rows[i].point_of_sale_id, rows[i].vendor_id>>
                                : i \in DOMAIN rows})
    IN  [k \in DOMAIN keys |->
            [point_of_sale_id |-> keys[k][1],
             vendor_id        |-> keys[k][2],
             total_compra     |->
                 SumTotalCompra(rows,
                     {i \in DOMAIN rows :
                         /\ rows[i].point_of_sale_id = keys[k][1]
                         /\ rows[i].vendor_id = keys[k][2]})]]

\* order totals per (POS, order), then their mean and count per POS
pos_order_stats_of(rows) ==
    LET order_keys == {<<rows[i].point_of_sale_id, rows[i].order_id>>
                          : i \in DOMAIN rows}
        pos == SortedPairs({<<k[1], 0>> : k \in order_keys})
    IN  [n \in DOMAIN pos |->
            LET p == pos[n][1]
            IN  [point_of_sale_id   |-> p,
                 promedio_por_orden |->
                     [num |-> SumTotalCompra(rows,
                                 {i \in DOMAIN rows
                                     : rows[i].point_of_sale_id = p}),
                      den |-> Cardinality({k \in order_keys : k[1] = p})],
                 numero_ordenes     |->
                     Cardinality({k \in order_keys : k[1] = p})]]

\* the tuple of the except branch, lines 1173-1191
EmptyTables ==
    [raised            |-> FALSE,
     pos_vendor_totals |-> [columns |-> PosVendorTotalsColumns,
                            rows |-> <<>>],
     df_pedidos        |-> EmptyFrame,
     pos_order_stats   |-> [columns |-> PosOrderStatsColumns,
                            rows |-> <<>>]]

\* raised tells whether the call ends with an exception instead of a tuple
load_and_process_data(files, pedidos) ==
    IF missing_files(files) # {} \/ unreadable_files(files) # {}
    THEN EmptyTables
    ELSE [raised            |-> FALSE,
          pos_vendor_totals |-> [columns |-> PosVendorTotalsColumns,
                                 rows |-> pos_vendor_totals_of(pedidos)],
          df_pedidos        |-> [columns |-> PedidosColumns,
                                 rows |-> pedidos],
          pos_order_stats   |-> [columns |-> PosOrderStatsColumns,
                                 rows |-> pos_order_stats_of(pedidos)]]

(***************************************************************************)
(* Load runs: load_and_process_data on a data directory.                    *)
(***************************************************************************)
MaxCsvRows == 2      \* rows of the orders file

CsvOrderRows ==
    [point_of_sale_id : PosIds, order_id : {10, 11}, vendor_id : {8},
     unidades_pedidas : {1, 2}, precio_minimo : {5}]

InitLoad ==
    /\ pc = "load"
    /\ files_on_disk \in [required_files -> FileStates]
    /\ csv_pedidos \in SeqsUpTo(CsvOrderRows, MaxCsvRows)
    /\ load_result = None
    /\ DashIdle /\ ConsolIdle /\ ScorerIdle /\ ChurnIdle /\ OwnerIdle
    /\ SavingsIdle /\ FlowIdle

LoadData ==
    /\ pc = "load"
    /\ load_result' = load_and_process_data(files_on_disk, csv_pedidos)
    /\ pc' = "done"
    /\ UNCHANGED <<files_on_disk, csv_pedidos, dashVars, consolVars,
                   scorerVars, churnVars, ownerVars, savingsVars, flowVars>>

NextLoad == LoadData
SpecLoad == InitLoad /\ [][NextLoad]_vars

AllFilesOk == [f \in required_files |-> "ok"]
SourceUnavailable ==
    \E f \in required_files : files_on_disk[f] # "ok"

\* C21: when a required source table cannot be obtained, the call ends with
\* an error for its caller, and its outcome differs from the outcome of a
\* load of readable files that hold no orders.
C21_LoadFailureSurfaced ==
    (pc = "done" /\ SourceUnavailable) =>
        /\ load_result.raised
        /\ load_result # load_and_process_data(AllFilesOk, <<>>)

(***************************************************************************)
(* ReportGenerator.generate and NotificationService.dispatch               *)
(* (behavioral_alert_agent.py)                                              *)
(***************************************************************************)
\* Config.default_owner_email
DEFAULT_OWNER_EMAIL == "arturo.gomez.@extendeal.com"

\* OwnerDirectory.get_contact(owner_id).email: the e-mail of the contact
\* file ("None" when the contact has none), or the fallback address
get_contact_email(contacts, owner_id) ==
    IF owner_id \in DOMAIN contacts THEN contacts[owner_id]
    ELSE DEFAULT_OWNER_EMAIL

\* lines 626-633: the contact data _create_owner_assessment puts into its
\* OwnerRiskAssessment
with_contact(owner, contacts) ==
    [owner_email |-> get_contact_email(contacts, owner.owner_id)] @@ owner

\* ReportGenerator.RISK_COLOR
RISK_COLOR ==
    [extreme |-> "#B71C1C", urgent |-> "#F44336", moderate |-> "#FF9800",
     low |-> "#4CAF50"]

\* _render_owner_html, lines 857-865: the key looked up in RISK_COLOR for an
\* owner (averages are in hundredths)
OwnerColorKey(avg_risk_score) ==
    IF avg_risk_score >= 80 THEN "high"
    ELSE IF avg_risk_score >= 60 THEN "moderate"
    ELSE "low"

\* self.RISK_COLOR[key] raises KeyError for a key the dict does not hold
RendersOwnerHtml(owners) ==
    \A i \in DOMAIN owners :
        OwnerColorKey(owners[i].avg_risk_score) \in DOMAIN RISK_COLOR

\* _merge_and_sort pairs every alert with the assessment of its POS; the
\* three per-POS renderers write a file or return None.  The runs of the
\* model have no orders rows, so _render_ascii_chart finds max_value = 0.
generate(alert_list, assessment_list, pos_owner, contacts) ==
    LET grouped == group_by_owner(pos_owner, assessment_list)
        owners == [i \in DOMAIN grouped |-> with_contact(grouped[i], contacts)]
    IN  IF ~RendersOwnerHtml(owners)
        THEN [raised |-> TRUE, error |-> "KeyError"]
        ELSE [raised |-> FALSE,
              paths  |->
                  [html           |-> IF alert_list = <<>> THEN "None"
                                      ELSE "behavior_alerts.html",
                   markdown       |-> "behavior_alerts.md",
                   ascii_chart    |-> "None",
                   owner_html     |-> IF owners = <<>> THEN "None"
                                      ELSE "owner_behavior_alerts.html",
                   owner_markdown |-> "owner_behavior_alerts.md"],
              owner_assessments |-> owners]

\* The for loop of _send_owner_notifications, as the list of what it did
\* with each owner it reached.  env tells which owners' messages cannot be
\* composed and which sends the Gmail API rejects.
RECURSIVE SendLoopContinuing(_, _)
SendLoopContinuing(owners, env) ==
    IF owners = <<>> THEN <<>>
    ELSE LET owner == Head(owners)
         IN  IF owner.owner_email \in {"None", ""}
             THEN <<[event |-> "skipped", owner_id |-> owner.owner_id]>>
                      \o SendLoopContinuing(Tail(owners), env)
             ELSE IF owner.owner_id \in env.compose_fails
             THEN <<[event |-> "not_composed", owner_id |-> owner.owner_id]>>
                      \o SendLoopContinuing(Tail(owners), env)
             ELSE IF owner.owner_id \in env.send_fails
             THEN <<[event |-> "send_failed", owner_id |-> owner.owner_id]>>
                      \o SendLoopContinuing(Tail(owners), env)
             ELSE <<[event |-> "sent", owner_id |-> owner.owner_id]>>
                      \o SendLoopContinuing(Tail(owners), env)
RECURSIVE SendLoop(_, _)
SendLoop(owners, env) ==
    IF owners = <<>> THEN <<>>
    ELSE LET owner == Head(owners)
         IN  IF owner.owner_email \in {"None", ""}
             THEN <<[event |-> "skipped", owner_id |-> owner.owner_id]>>
                      \o SendLoop(Tail(owners), env)
             ELSE IF owner.owner_id \in env.compose_fails
             THEN <<[event |-> "not_composed", owner_id |-> owner.owner_id]>>
                      \o SendLoop(Tail(owners), env)
             ELSE IF owner.owner_id \in env.send_fails
             THEN <<[event |-> "send_failed", owner_id |-> owner.owner_id]>>
             ELSE <<[event |-> "sent", owner_id |-> owner.owner_id]>>
                      \o SendLoop(Tail(owners), env)

\* NotificationService._send_owner_notifications
send_owner_notifications(owners, env) ==
    IF owners = <<>> THEN <<>>
    ELSE IF ~env.client_available THEN <<>>
    ELSE SendLoop(owners, env)

\* NotificationService.dispatch (_log_top_assessment only prints)
dispatch(assessment_list, owners, env) ==
    IF assessment_list = <<>> THEN <<>>
    ELSE send_owner_notifications(owners, env)

(***************************************************************************)
(* Flow runs: ChurnAlertFlow.run from extract to dispatch.  The flow       *)
(* object is constructed: the POS-to-owner mapping and the owner contacts  *)
(* are loaded.                                                              *)
(***************************************************************************)
MaxFlowTrials == 2   \* rows of the trial file in the flow runs

FlowTrialRows ==
    [point_of_sale_id : PosIds, platform_use : {"low", "high"},
     time_saved : {"minimum", "medium"}]
FlowTrendTables ==
    {t \in TrendTables :
        \A i \in DOMAIN t : t[i].trend_classification # "Risky"}
\* both POS of owner A; one POS each for A and B; POS 2 without owner
FlowCsvFiles ==
    {<<[id |-> "1", company_owner_id |-> "A"],
       [id |-> "2", company_owner_id |-> o2]>> : o2 \in {"A", " B ", " "}}
\* no contact file; a contact file in which owner A has no e-mail
FlowContacts == {<<>>, "A" :> "None"}
\* e-mail switched off; Gmail working; Gmail rejecting the message for A
FlowGmail ==
    {[client_available |-> FALSE, compose_fails |-> {}, send_fails |-> {}],
     [client_available |-> TRUE, compose_fails |-> {}, send_fails |-> {}],
     [client_available |-> TRUE, compose_fails |-> {}, send_fails |-> {"A"}]}

InitFlow ==
    /\ pc = "extract"
    /\ trial_raw \in SeqsUpTo(FlowTrialRows, MaxFlowTrials)
    /\ trend_raw \in FlowTrendTables
    /\ trial_entries = <<>>
    /\ trend_index = <<>>
    /\ alerts = <<>>
    /\ assessments = <<>>
    /\ pos_owner_csv \in FlowCsvFiles
    /\ pos_owner_map = load_pos_owner_mapping(pos_owner_csv)
    /\ owner_input = <<>>
    /\ owner_assessments = <<>>
    /\ owner_contacts \in FlowContacts
    /\ gmail \in FlowGmail
    /\ report_paths = None
    /\ send_log = <<>>
    /\ DashIdle /\ ConsolIdle /\ ScorerIdle /\ SavingsIdle /\ LoadIdle

\* line 1192, followed by the report stage
ScoreInRun ==
    /\ pc = "score"
    /\ assessments' = score(alerts)
    /\ pc' = "generate"
    /\ UNCHANGED <<trial_raw, trend_raw, trial_entries, trend_index, alerts,
                   dashVars, consolVars, scorerVars, ownerVars, savingsVars,
                   loadVars, flowVars>>

\* line 1193: an exception of generate ends run
Generate ==
    /\ pc = "generate"
    /\ LET outcome == generate(alerts, assessments, pos_owner_map,
                               owner_contacts)
       IN  IF outcome.raised
           THEN /\ pc' = "raised"
                /\ report_paths' = outcome
                /\ UNCHANGED owner_assessments
           ELSE /\ pc' = "dispatch"
                /\ report_paths' = outcome.paths
                /\ owner_assessments' = outcome.owner_assessments
    /\ UNCHANGED <<pos_owner_csv, pos_owner_map, owner_input, owner_contacts,
                   gmail, send_log, dashVars, consolVars, scorerVars,
                   churnVars, savingsVars, loadVars>>

\* line 1194
Dispatch ==
    /\ pc = "dispatch"
    /\ send_log' = dispatch(assessments, owner_assessments, gmail)
    /\ pc' = "done"
    /\ UNCHANGED <<owner_contacts, gmail, report_paths, dashVars, consolVars,
                   scorerVars, churnVars, ownerVars, savingsVars, loadVars>>

NextFlow == Extract \/ BuildAlerts \/ ScoreInRun \/ Generate \/ Dispatch
SpecFlow == InitFlow /\ [][NextFlow]_vars

ScoringDone == pc \in {"generate", "dispatch", "done", "raised"}

\* C25: every assessment the run produces has a level among extreme, urgent
\* and moderate and a score among 1.0, 0.75 and 0.5; hence no owner has a
\* low-risk POS and no owner gets the ESTABLE message.
C25_FallbackUnreachable ==
    ScoringDone =>
        /\ \A i \in DOMAIN assessments :
               /\ assessments[i].risk_level \in {"extreme", "urgent", "moderate"}
               /\ assessments[i].risk_score \in {100, 75, 50}
        /\ LET owners == group_by_owner(pos_owner_map, assessments)
           IN  \A k \in DOMAIN owners :
                   /\ owners[k].low_risk_pos = <<>>
                   /\ owners[k].summary[1] # "ESTABLE"
        /\ \A k \in DOMAIN owner_assessments :
               /\ owner_assessments[k].low_risk_pos = <<>>
               /\ owner_assessments[k].summary[1] # "ESTABLE"

\* a finished run over two trial entries of POS with an owner: one meets no
\* criterion and gets no assessment, the other is the owner's only POS
C25_Witness ==
    /\ pc = "done"
    /\ Len(trial_raw) = 2
    /\ \E i \in DOMAIN trial_raw :
           /\ CriteriaHolding(trial_raw[i]) = {}
           /\ trial_raw[i].point_of_sale_id \in DOMAIN pos_owner_map
    /\ Len(assessments) = 1
    /\ Len(owner_assessments) = 1
    /\ owner_assessments[1].pos_count = 1

\* C27: the stages run in the order extract, build_alerts, score, generate,
\* dispatch, and no run stops before dispatch: report generation completes
\* whatever the owners' average scores are.
C27_RunReachesDispatch ==
    /\ pc # "raised"
    /\ pc \in {"dispatch", "done"} => /\ report_paths # None
                                      /\ Len(assessments) = Len(alerts)

(***************************************************************************)
(* Notify runs: _send_owner_notifications on an arbitrary owner list (the  *)
(* two fields of OwnerRiskAssessment the loop reads).                       *)
(***************************************************************************)
MaxOwners == 3       \* length of the owner list

NotifyOwnerIds == {"A", "B", "C"}
NotifyOwners ==
    [owner_id : NotifyOwnerIds, owner_email : {"owner@farmacia.mx", "None"}]
\* group_by_owner yields one entry per owner
NotifyOwnerLists ==
    {l \in SeqsUpTo(NotifyOwners, MaxOwners) :
        \A i, j \in DOMAIN l : l[i].owner_id = l[j].owner_id => i = j}

InitNotify ==
    /\ pc = "notify"
    /\ owner_assessments \in NotifyOwnerLists
    /\ gmail \in [client_available : BOOLEAN,
                  compose_fails : SUBSET NotifyOwnerIds,
                  send_fails : SUBSET NotifyOwnerIds]
    /\ send_log = <<>>
    /\ pos_owner_csv = <<>> /\ pos_owner_map = <<>> /\ owner_input = <<>>
    /\ owner_contacts = <<>> /\ report_paths = None
    /\ DashIdle /\ ConsolIdle /\ ScorerIdle /\ ChurnIdle /\ SavingsIdle
    /\ LoadIdle

Notify ==
    /\ pc = "notify"
    /\ send_log' = send_owner_notifications(owner_assessments, gmail)
    /\ pc' = "done"
    /\ UNCHANGED <<owner_contacts, gmail, report_paths, dashVars, consolVars,
                   scorerVars, churnVars, ownerVars, savingsVars, loadVars>>

NextNotify == Notify
SpecNotify == InitNotify /\ [][NextNotify]_vars

\* C28: the owners are handled in list order, each at most once; an owner
\* without e-mail or whose message cannot be composed is skipped and the
\* next owner is handled; after a failed send nothing more is attempted.
C28_SendOrderAndStop ==
    pc = "done" =>
        /\ Len(send_log) <= Len(owner_assessments)
        /\ \A k \in DOMAIN send_log :
               /\ send_log[k].owner_id = owner_assessments[k].owner_id
               /\ owner_assessments[k].owner_email = "None"
                      => send_log[k].event = "skipped"
               /\ send_log[k].event \in {"skipped", "not_composed"}
                      => (k < Len(owner_assessments)
                              => k + 1 \in DOMAIN send_log)
               /\ send_log[k].event = "send_failed" => k = Len(send_log)

\* three owners: the first has no e-mail, the send to the second fails, the
\* third has an e-mail and a deliverable message but is never reached
C28_Witness ==
    /\ pc = "done"
    /\ Len(owner_assessments) = 3
    /\ Len(send_log) = 2
    /\ send_log[1].event = "skipped"
    /\ send_log[2].event = "send_failed"
    /\ owner_assessments[3].owner_email # "None"
    /\ owner_assessments[3].owner_id \notin gmail.send_fails
    /\ owner_assessments[3].owner_id \notin gmail.compose_fails

=============================================================================
